---- MODULE Spec2Model ----
(***************************************************************************)
(* A model of the Telegram userbot's decision core: the time-rule matcher, *)
(* the reply-message resolver, the confirmation workflow guarding rule     *)
(* deletion, and temp mode (snapshot / restore of the rule set).           *)
(*                                                                         *)
(* Conventions.                                                            *)
(*  - An Optional value is a sequence of length 0 (None) or 1 (the value). *)
(*  - A wall-clock instant is a number of seconds; a time of day is a      *)
(*    number of seconds since midnight; a stored "HH:MM" text is the pair  *)
(*    <<hour, minute>>.                                                    *)
(*  - The store (MongoDB) is modelled by the db_* variables; pymongo calls *)
(*    are synchronous, so a handler is atomic between two awaits.          *)
(***************************************************************************)
EXTENDS Integers, Sequences, FiniteSets, TLC

(***************************** bounds **************************************)
\* minutes of the day that rule boundaries are drawn from: 0..MaxMinute
MaxMinute == 2
\* rules ever created (uuid4 values drawn)
MaxId == 2
\* the clock stops advancing here
MaxNow == 80
\* seconds the clock advances in one step
TickStep == 20
\* rule documents in a stored collection drawn as an input
MaxDrawn == 2
\* handlers that may be suspended at an await at the same time
MaxTasks == 2
\* lazy resets that may be scheduled and not yet run
MaxResets == 2

\* inbound messages delivered in one run
MaxMessages == 3
\* seconds the clock advances in one step of the reply path
ReplyStep == 150
\* the clock of the reply path stops advancing here
MaxReplyNow == 300
\* users the cooldown cache may track when it is drawn
MaxTracked == 102

(************************* program constants *******************************)
CONFIRMATION_EXPIRY_SECONDS == 60
REPLY_COOLDOWN_SECONDS == 300
STATUS_CHECK_INTERVAL_SECONDS == 30
\* _mark_user_replied: the number of tracked users above which it evicts
CLEANUP_THRESHOLD == 100

\* categories.py CATEGORIES: the fixed table (two of its keys, the texts
\* without their emoji)
CATEGORIES == [c \in {"work", "driving"} |->
                 IF c = "work" THEN "I'm working right now. I'll respond once I'm free"
                 ELSE "I'm driving at the moment. I'll text you once I'm parked"]

\* a variant that takes every text for a category
is_valid_category_any(category) == TRUE

is_valid_category(category) == category \in DOMAIN CATEGORIES

\* a variant that answers an unknown key with the text of another category
get_category_message_substitute(category) ==
  IF category \in DOMAIN CATEGORIES THEN CATEGORIES[category] ELSE CATEGORIES["work"]

\* get_category_message: the table's text; an unknown key raises ValueError
get_category_message(category) ==
  IF category \in DOMAIN CATEGORIES THEN CATEGORIES[category] ELSE "ValueError"

(***************************** optionals ***********************************)
None == <<>>
Some(x) == <<x>>
IsSome(o) == o # <<>>
The(o) == o[1]

(******************************* time **************************************)
\* datetime.time(hour, minute): seconds since midnight
TimeOf(hour, minute) == (hour * 60 + minute) * 60

\* time.strftime('%H:%M'): the seconds are dropped
StrfHM(t) == << t \div 3600, (t \div 60) % 60 >>

\* utils.parse_time on the text "hour:minute"
parse_time(hm) ==
  IF 0 <= hm[1] /\ hm[1] <= 23 /\ 0 <= hm[2] /\ hm[2] <= 59
  THEN Some(TimeOf(hm[1], hm[2]))
  ELSE None

\* utils.parse_time_range on the text "start-end"
parse_time_range(range) ==
  LET start_time == parse_time(range[1])
      end_time == parse_time(range[2])
  IN IF start_time = None \/ end_time = None
     THEN None
     ELSE Some(<< The(start_time), The(end_time) >>)

\* a variant that leaves the end of a plain window out
is_time_in_range_strict(check_time, start_time, end_time) ==
  IF start_time <= end_time
  THEN start_time <= check_time /\ check_time < end_time
  ELSE check_time >= start_time \/ check_time <= end_time

\* utils.is_time_in_range
is_time_in_range(check_time, start_time, end_time) ==
  IF start_time <= end_time
  THEN start_time <= check_time /\ check_time <= end_time
  ELSE check_time >= start_time \/ check_time <= end_time

\* datetime.isoformat / datetime.fromisoformat of an aware datetime
IsoFormat(t) == << "iso", t >>
FromIsoFormat(s) == s[2]

(******************************* rules *************************************)
\* TimeRule.to_dict
RuleToDict(rule) ==
  [rule_id |-> rule.rule_id, category |-> rule.category,
   start_time |-> StrfHM(rule.start_time), end_time |-> StrfHM(rule.end_time)]

RuleDocValid(doc) == parse_time(doc.start_time) # None /\ parse_time(doc.end_time) # None

\* TimeRule.from_dict (a doc with a bad time raises ValueError: see the callers)
RuleFromDict(doc) ==
  [rule_id |-> doc.rule_id, category |-> doc.category,
   start_time |-> The(parse_time(doc.start_time)),
   end_time |-> The(parse_time(doc.end_time))]

\* Database.get_all_time_rules over a collection: find() in stored order; any
\* exception (a doc that does not parse) is logged and [] returned
AllTimeRules(docs) ==
  IF \A i \in 1..Len(docs) : RuleDocValid(docs[i])
  THEN [i \in 1..Len(docs) |-> RuleFromDict(docs[i])]
  ELSE <<>>

\* a variant that returns the last matching rule
ActiveRuleLast(docs, current_time) ==
  LET rules == AllTimeRules(docs)
      hits == {i \in 1..Len(rules) :
                 is_time_in_range(current_time, rules[i].start_time, rules[i].end_time)}
  IN IF hits = {} THEN None
     ELSE Some(rules[CHOOSE i \in hits : \A j \in hits : j <= i])

\* Database.get_active_rule over a collection
ActiveRule(docs, current_time) ==
  LET rules == AllTimeRules(docs)
      hits == {i \in 1..Len(rules) :
                 is_time_in_range(current_time, rules[i].start_time, rules[i].end_time)}
  IN IF hits = {} THEN None
     ELSE Some(rules[CHOOSE i \in hits : \A j \in hits : i <= j])

(******************************* state *************************************)
VARIABLES
  db_rules,              \* collection time_rules: rule docs in stored order
  db_state,              \* collection bot_state: the owner's document
  db_temp,               \* collection temp_state: Optional document
  db_pending,            \* collection pending_confirmations: Optional document
  auto_reply_enabled,    \* self.auto_reply_enabled
  custom_rules_enabled,  \* self.custom_rules_enabled
  default_message,       \* self.default_message
  now,                   \* the clock (get_ist_now)
  nextId,                \* the next fresh uuid4
  pc,                    \* per handler slot: where a suspended handler resumes
  resets,                \* _reset_temp_mode tasks created and not yet run
  ev,                    \* observation: what the last step did and replied
  activation,            \* observation: live rules and flag when temp mode was entered
  execs,                 \* observation: executions of the request now pending
  recently_replied_users,\* self.recently_replied_users: per user, Optional time
  owner_actually_online, \* self.owner_actually_online (the cached presence)
  last_status_check,     \* self.last_status_check
  handlers,              \* per slot: the auto-reply handler suspended there
  arrivals,              \* inbound messages delivered so far
  message_count,         \* collection message_stats: documents user_id, date, count
  last_sent              \* observation: per user, when the last reply was sent

vars == << db_rules, db_state, db_temp, db_pending, auto_reply_enabled,
           custom_rules_enabled, default_message, now, nextId, pc, resets,
           ev, activation, execs, recently_replied_users, owner_actually_online,
           last_status_check, handlers, arrivals, message_count, last_sent >>

\* the state of the auto-reply path
reply_vars == << recently_replied_users, owner_actually_online, last_status_check,
                 handlers, arrivals, message_count, last_sent >>

Slots == 1..MaxTasks

\* an observation: the handler that ran (cmd), its reply (result, count, msg),
\* its argument (arg) and the record it read or returned (val)
Ev(cmd, result) ==
  [cmd |-> cmd, result |-> result, count |-> 0, msg |-> "", val |-> None, arg |-> "",
   changed |-> FALSE]
EvCount(cmd, result, count) == [Ev(cmd, result) EXCEPT !.count = count]

\* utils.get_ist_time: the time-of-day part of the clock
get_ist_time == now % 86400

\* a variant that expires only after the window, not at its end
is_expired_strict(timestamp, expiry_seconds) == (now - timestamp) > expiry_seconds

\* utils.is_expired
is_expired(timestamp, expiry_seconds) == (now - timestamp) >= expiry_seconds

(************************** store operations *******************************)
\* Database.get_all_time_rules
get_all_time_rules == AllTimeRules(db_rules)

\* Database.get_time_rules_by_category
get_time_rules_by_category(category) ==
  AllTimeRules(SelectSeq(db_rules, LAMBDA d : d.category = category))

\* Database.get_active_rule
get_active_rule(current_time) == ActiveRule(db_rules, current_time)

\* a variant that keeps one rule per category: the new rule takes the place of
\* the stored rules of its category
AddTimeRuleOnePerCategory(docs, rule) ==
  Append(SelectSeq(docs, LAMBDA d : d.category # rule.category), RuleToDict(rule))

\* Database.add_time_rule on a collection: insert_one; the unique index on
\* rule_id rejects a duplicate (the exception is caught, nothing is stored)
AddTimeRule(docs, rule) ==
  IF \E i \in 1..Len(docs) : docs[i].rule_id = rule.rule_id
  THEN docs
  ELSE Append(docs, RuleToDict(rule))

\* Database.update_time_rule on a collection
UpdateTimeRule(docs, rule_id, start_time, end_time) ==
  [i \in 1..Len(docs) |->
     IF docs[i].rule_id = rule_id
     THEN [docs[i] EXCEPT !.start_time = StrfHM(start_time), !.end_time = StrfHM(end_time)]
     ELSE docs[i]]

\* Database.remove_time_rule_by_id on a collection
RemoveTimeRuleById(docs, rule_id) == SelectSeq(docs, LAMBDA d : d.rule_id # rule_id)

\* Database.remove_time_rules_by_category on a collection
RemoveTimeRulesByCategory(docs, category) ==
  SelectSeq(docs, LAMBDA d : d.category # category)

\* PendingConfirmation.to_dict, as stored by Database.set_pending_confirmation
\* ($set of all four fields with upsert: the document is replaced whole)
PendingToDict(action_type, category, rule_id, timestamp) ==
  [action_type |-> action_type, category |-> category, rule_id |-> rule_id,
   timestamp |-> IsoFormat(timestamp)]

\* a variant that leaves the document stored
ClearPendingKeep(doc) == doc

\* Database.clear_pending_confirmation on the stored document: delete_one
ClearPending(doc) == None

\* a variant that reads a missing document as a delete-all request
PendingOrDefault(doc) ==
  IF doc = None
  THEN Some([action_type |-> "remove_all_custom", category |-> None, rule_id |-> None,
             timestamp |-> now])
  ELSE Some([The(doc) EXCEPT !.timestamp = FromIsoFormat(@)])

\* Database.get_pending_confirmation on the stored document
PendingFromDoc(doc) ==
  IF doc = None THEN None
  ELSE Some([The(doc) EXCEPT !.timestamp = FromIsoFormat(@)])

\* Database.get_pending_confirmation / PendingConfirmation.from_dict
get_pending_confirmation == PendingFromDoc(db_pending)

\* TempState.to_dict
TempToDict(temp_state) ==
  [temp_state EXCEPT !.temp_expiry = IF @ = None THEN None ELSE Some(IsoFormat(The(@)))]

\* a variant that reads a missing or inactive document as active temp mode
get_temp_state_active ==
  IF db_temp = None
  THEN Some([temp_active |-> TRUE, temp_category |-> "work", temp_expiry |-> None,
             saved_rules |-> <<>>, saved_custom_enabled |-> FALSE])
  ELSE Some([The(db_temp) EXCEPT
               !.temp_active = TRUE,
               !.temp_expiry = IF @ = None THEN None ELSE Some(FromIsoFormat(The(@)))])

\* Database.get_temp_state / TempState.from_dict
get_temp_state ==
  IF db_temp = None THEN None
  ELSE Some([The(db_temp) EXCEPT
               !.temp_expiry = IF @ = None THEN None ELSE Some(FromIsoFormat(The(@)))])

\* Database.update_custom_rules_status: $set on the owner's document
UpdateCustomRulesStatus(doc, enabled) == [doc EXCEPT !.custom_rules_enabled = enabled]

\* _save_state_to_db / BotState.to_dict of the three in-memory fields
BotStateDoc(auto, message, custom) ==
  [auto_reply_enabled |-> auto, default_message |-> message, custom_rules_enabled |-> custom]

\* the rule set as (category, start, end) tuples
RuleTuples(docs) == {<< docs[i].category, docs[i].start_time, docs[i].end_time >> : i \in 1..Len(docs)}

(****************************** resolver ***********************************)
\* a variant that consults the rules before the override
ResolveMessageRulesFirst(temp_state, docs, custom, message, clock) ==
  LET temp_on == IsSome(temp_state) /\ The(temp_state).temp_active
      active_rule == ActiveRule(docs, clock % 86400)
  IN [msg |-> IF custom /\ IsSome(active_rule)
              THEN get_category_message(The(active_rule).category)
              ELSE IF temp_on THEN get_category_message(The(temp_state).temp_category)
              ELSE message,
      schedule |-> FALSE,
      matcher |-> custom]

\* a variant that consults the rules whatever the flag is
ResolveMessageIgnoreFlag(temp_state, docs, custom, message, clock) ==
  LET temp_on == IsSome(temp_state) /\ The(temp_state).temp_active
      active_rule == ActiveRule(docs, clock % 86400)
  IN [msg |-> IF temp_on THEN get_category_message(The(temp_state).temp_category)
              ELSE IF IsSome(active_rule)
                   THEN get_category_message(The(active_rule).category)
                   ELSE message,
      schedule |-> FALSE,
      matcher |-> ~temp_on]

\* a variant that still uses the override at the instant of its expiry
ResolveMessageLateExpiry(temp_state, docs, custom, message, clock) ==
  LET temp_on == IsSome(temp_state) /\ The(temp_state).temp_active
      has_expiry == temp_on /\ IsSome(The(temp_state).temp_expiry)
      expired == has_expiry /\ ~(clock <= The(The(temp_state).temp_expiry))
      live == temp_on /\ ~expired
      active_rule == ActiveRule(docs, clock % 86400)
  IN [msg |-> IF live
              THEN get_category_message(The(temp_state).temp_category)
              ELSE IF custom /\ IsSome(active_rule)
                   THEN get_category_message(The(active_rule).category)
                   ELSE message,
      schedule |-> expired,
      matcher |-> ~live /\ custom]

\* a variant that schedules the reset whenever an override is active
ResolveMessageAlwaysResets(temp_state, docs, custom, message, clock) ==
  LET temp_on == IsSome(temp_state) /\ The(temp_state).temp_active
      has_expiry == temp_on /\ IsSome(The(temp_state).temp_expiry)
      expired == has_expiry /\ ~(clock < The(The(temp_state).temp_expiry))
      live == temp_on /\ ~expired
      active_rule == ActiveRule(docs, clock % 86400)
  IN [msg |-> IF live
              THEN get_category_message(The(temp_state).temp_category)
              ELSE IF custom /\ IsSome(active_rule)
                   THEN get_category_message(The(active_rule).category)
                   ELSE message,
      schedule |-> temp_on,
      matcher |-> ~live /\ custom]

\* TelegramUserbot._get_current_auto_reply_message over what it reads: the
\* message, whether an _reset_temp_mode task is created, and whether
\* get_active_rule is called
ResolveMessage(temp_state, docs, custom, message, clock) ==
  LET temp_on == IsSome(temp_state) /\ The(temp_state).temp_active
      has_expiry == temp_on /\ IsSome(The(temp_state).temp_expiry)
      expired == has_expiry /\ ~(clock < The(The(temp_state).temp_expiry))
      live == temp_on /\ ~expired
      active_rule == ActiveRule(docs, clock % 86400)
  IN [msg |-> IF live
              THEN get_category_message(The(temp_state).temp_category)
              ELSE IF custom /\ IsSome(active_rule)
                   THEN get_category_message(The(active_rule).category)
                   ELSE message,
      schedule |-> expired,
      matcher |-> ~live /\ custom]

\* the call self._get_current_auto_reply_message() in the current state
get_current_auto_reply_message ==
  ResolveMessage(get_temp_state, db_rules, custom_rules_enabled, default_message, now)

(****************************** temp mode **********************************)
RECURSIVE RestoreRulesReversed(_, _)
\* a variant that re-inserts the saved rules last to first
RestoreRulesReversed(docs, saved) ==
  IF saved = <<>> THEN docs
  ELSE AddTimeRule(RestoreRulesReversed(docs, Tail(saved)), RuleFromDict(Head(saved)))

RECURSIVE RestoreRules(_, _)
\* the loop of _reset_temp_mode: add_time_rule(TimeRule.from_dict(d)) per saved doc
RestoreRules(docs, saved) ==
  IF saved = <<>> THEN docs
  ELSE RestoreRules(AddTimeRule(docs, RuleFromDict(Head(saved))), Tail(saved))

\* a variant that adds the saved rules to the live ones
ResetRulesMerge(live, saved) == RestoreRules(live, saved)

\* _reset_temp_mode on the rule collection: remove_all_time_rules, then the loop
ResetRules(live, saved) == RestoreRules(<<>>, saved)

\* TelegramUserbot._reset_temp_mode (it holds no await: one atomic step)
ResetTempMode ==
  LET temp_state == get_temp_state
  IN IF temp_state = None \/ ~The(temp_state).temp_active
     THEN UNCHANGED << db_rules, custom_rules_enabled, db_state, db_temp, activation >>
     ELSE /\ db_rules' = ResetRules(db_rules, The(temp_state).saved_rules)
          /\ custom_rules_enabled' = The(temp_state).saved_custom_enabled
          /\ db_state' = UpdateCustomRulesStatus(db_state, The(temp_state).saved_custom_enabled)
          /\ db_temp' = None
          /\ activation' = None

\* a variant that saves no rule
SnapshotNone(rules) == <<>>

\* _cmd_temp: saved_rules = [rule.to_dict() for rule in current_rules]
Snapshot(rules) == [i \in 1..Len(rules) |-> RuleToDict(rules[i])]

\* a variant that takes a new snapshot
ReactivatedResnapshot(temp_state, category) ==
  [temp_state EXCEPT !.temp_category = category, !.temp_expiry = None,
                     !.saved_rules = Snapshot(get_all_time_rules),
                     !.saved_custom_enabled = custom_rules_enabled]

\* _cmd_temp with temp mode already active: the two assignments to temp_state
Reactivated(temp_state, category) ==
  [temp_state EXCEPT !.temp_category = category, !.temp_expiry = None]

(****************************** commands ***********************************)
\* /custom HH:MM-HH:MM category
CmdCustom(category, range) ==
  /\ UNCHANGED reply_vars
  /\ nextId <= MaxId
  /\ UNCHANGED << db_state, db_temp, db_pending, auto_reply_enabled, custom_rules_enabled,
                  default_message, now, pc, resets, activation, execs >>
  /\ IF ~is_valid_category(category)
     THEN ev' = [Ev("custom", "invalid_category") EXCEPT
                   !.val = Some([category |-> category, range |-> range])]
          /\ UNCHANGED << db_rules, nextId >>
     ELSE IF parse_time_range(range) = None
     THEN ev' = [Ev("custom", "invalid_time") EXCEPT
                   !.val = Some([category |-> category, range |-> range])]
          /\ UNCHANGED << db_rules, nextId >>
     ELSE LET time_range == The(parse_time_range(range))
              rule == [rule_id |-> nextId, category |-> category,
                       start_time |-> time_range[1], end_time |-> time_range[2]]
          IN /\ db_rules' = AddTimeRule(db_rules, rule)
             /\ nextId' = nextId + 1
             /\ ev' = [EvCount("custom", "added",
                               Cardinality({i \in 1..Len(db_rules') :
                                              db_rules'[i].category = category}))
                         EXCEPT !.val = Some([category |-> category, range |-> range])]

\* /customedit <rule_id> HH:MM-HH:MM
CmdCustomEdit(rule_id_input, range) ==
  /\ UNCHANGED reply_vars
  /\ UNCHANGED << db_state, db_temp, db_pending, auto_reply_enabled, custom_rules_enabled,
                  default_message, now, nextId, pc, resets, activation, execs >>
  /\ LET all_rules == get_all_time_rules
         matching_rules == SelectSeq(all_rules, LAMBDA r : r.rule_id = rule_id_input)
     IN IF Len(matching_rules) > 1
        THEN ev' = [Ev("customedit", "ambiguous") EXCEPT
                      !.val = Some([rule_id |-> rule_id_input, range |-> range])]
             /\ UNCHANGED db_rules
        ELSE IF Len(matching_rules) = 0
        THEN ev' = [Ev("customedit", "not_found") EXCEPT
                      !.val = Some([rule_id |-> rule_id_input, range |-> range])]
             /\ UNCHANGED db_rules
        ELSE IF parse_time_range(range) = None
        THEN ev' = [Ev("customedit", "invalid_time") EXCEPT
                      !.val = Some([rule_id |-> rule_id_input, range |-> range])]
             /\ UNCHANGED db_rules
        ELSE LET rule == matching_rules[1]
                 time_range == The(parse_time_range(range))
             IN /\ db_rules' = UpdateTimeRule(db_rules, rule.rule_id, time_range[1], time_range[2])
                \* update_one reports modified_count 0 when the times are the old ones
                /\ ev' = [Ev("customedit", IF db_rules' # db_rules THEN "updated"
                                            ELSE "failed") EXCEPT
                           !.val = Some([rule_id |-> rule_id_input, range |-> range])]

\* /removecustom <rule_id|category>: identifier.len8 says the text has 8
\* characters, identifier.id is the rule id it is a prefix of (0: of none)
CmdRemoveCustom(identifier) ==
  /\ UNCHANGED reply_vars
  /\ UNCHANGED << db_rules, db_state, db_temp, auto_reply_enabled, custom_rules_enabled,
                  default_message, now, nextId, pc, resets, activation >>
  /\ LET all_rules == get_all_time_rules
         matching_rules == IF identifier.len8
                           THEN SelectSeq(all_rules, LAMBDA r : r.rule_id = identifier.id)
                           ELSE <<>>
         rules == get_time_rules_by_category(identifier.name)
     IN IF Len(matching_rules) > 1
        THEN ev' = [Ev("removecustom", "ambiguous") EXCEPT !.val = Some(identifier)]
             /\ UNCHANGED << db_pending, execs >>
        ELSE IF Len(matching_rules) = 1
        THEN /\ db_pending' = Some(PendingToDict("remove_custom", Some(matching_rules[1].category),
                                                 Some(matching_rules[1].rule_id), now))
             /\ execs' = 0
             /\ ev' = [Ev("removecustom", "pending_rule") EXCEPT !.val = Some(identifier)]
        ELSE IF rules = <<>>
        THEN ev' = [Ev("removecustom", "not_found") EXCEPT !.val = Some(identifier)]
             /\ UNCHANGED << db_pending, execs >>
        ELSE /\ db_pending' = Some(PendingToDict("remove_custom_category", Some(identifier.name),
                                                 None, now))
             /\ execs' = 0
             /\ ev' = [EvCount("removecustom", "pending_category", Len(rules)) EXCEPT
                         !.val = Some(identifier)]

\* /customremoveall: PendingConfirmation(...) is built without rule_id, a
\* required field of the dataclass, so the constructor raises TypeError
CmdCustomRemoveAll ==
  /\ UNCHANGED reply_vars
  /\ UNCHANGED << db_rules, db_state, db_temp, db_pending, auto_reply_enabled,
                  custom_rules_enabled, default_message, now, nextId, pc, resets,
                  activation, execs >>
  /\ ev' = IF get_all_time_rules = <<>> THEN Ev("customremoveall", "no_rules")
           ELSE Ev("customremoveall", "TypeError")

\* what the action of a pending confirmation does to the rule collection
ExecutePending(docs, confirmation) ==
  IF confirmation.action_type = "remove_custom"
  THEN IF IsSome(confirmation.rule_id)
       THEN RemoveTimeRuleById(docs, The(confirmation.rule_id))
       ELSE docs
  ELSE IF confirmation.action_type = "remove_custom_category"
  THEN RemoveTimeRulesByCategory(docs, The(confirmation.category))
  ELSE IF confirmation.action_type = "remove_all_custom"
  THEN <<>>
  ELSE docs

\* the reply _cmd_confirm sends for an executed action, with the count removed
ConfirmReply(confirmation, removed) ==
  IF confirmation.action_type = "remove_custom"
  THEN IF IsSome(confirmation.rule_id)
       THEN IF removed > 0 THEN "rule_removed" ELSE "failed_to_remove"
       ELSE "invalid_confirmation_data"
  ELSE IF confirmation.action_type \in {"remove_custom_category", "remove_all_custom"}
  THEN IF removed > 0 THEN "removed_count" ELSE "no_rules_found"
  ELSE "no_reply"

\* /confirm, up to the await of its reply
CmdConfirm(k) ==
  /\ UNCHANGED reply_vars
  /\ pc[k] = "idle"
  /\ UNCHANGED << db_state, db_temp, auto_reply_enabled, custom_rules_enabled,
                  default_message, now, nextId, resets, activation >>
  /\ LET confirmation == get_pending_confirmation
     IN IF confirmation = None
        THEN /\ ev' = Ev("confirm", "nothing_to_confirm")
             /\ UNCHANGED << db_rules, db_pending, pc, execs >>
        ELSE IF is_expired(The(confirmation).timestamp, CONFIRMATION_EXPIRY_SECONDS)
        THEN /\ db_pending' = ClearPending(db_pending)
             /\ ev' = [Ev("confirm", "expired") EXCEPT !.val = confirmation]
             /\ UNCHANGED << db_rules, pc, execs >>
        ELSE /\ db_rules' = ExecutePending(db_rules, The(confirmation))
             /\ ev' = [EvCount("confirm",
                               ConfirmReply(The(confirmation), Len(db_rules) - Len(db_rules')),
                               Len(db_rules) - Len(db_rules'))
                       EXCEPT !.val = confirmation]
             /\ execs' = execs + 1
             \* await event.reply(...): clear_pending_confirmation comes after it
             /\ pc' = [pc EXCEPT ![k] = "confirm_reply"]
             /\ UNCHANGED db_pending

\* /confirm resumed after its reply: clear_pending_confirmation
ConfirmClear(k) ==
  /\ UNCHANGED reply_vars
  /\ pc[k] = "confirm_reply"
  /\ pc' = [pc EXCEPT ![k] = "idle"]
  /\ db_pending' = ClearPending(db_pending)
  /\ ev' = Ev("confirm_clear", "cleared")
  /\ UNCHANGED << db_rules, db_state, db_temp, auto_reply_enabled, custom_rules_enabled,
                  default_message, now, nextId, resets, activation, execs >>

\* /cancel
CmdCancel ==
  /\ UNCHANGED reply_vars
  /\ UNCHANGED << db_rules, db_state, db_temp, auto_reply_enabled, custom_rules_enabled,
                  default_message, now, nextId, pc, resets, activation, execs >>
  /\ IF get_pending_confirmation = None
     THEN ev' = Ev("cancel", "nothing_to_cancel") /\ UNCHANGED db_pending
     ELSE ev' = Ev("cancel", "cancelled") /\ db_pending' = ClearPending(db_pending)

\* a variant of /customon that does not look at the temp state
CmdCustomOnUnguarded ==
  /\ UNCHANGED reply_vars
  /\ UNCHANGED << db_rules, db_temp, db_pending, auto_reply_enabled, default_message,
                  now, nextId, pc, resets, activation, execs >>
  /\ IF custom_rules_enabled
     THEN ev' = Ev("customon", "already_enabled")
          /\ UNCHANGED << custom_rules_enabled, db_state >>
     ELSE /\ custom_rules_enabled' = TRUE
          /\ db_state' = UpdateCustomRulesStatus(db_state, TRUE)
          /\ ev' = EvCount("customon", "enabled", Len(get_all_time_rules))

\* /customon
CmdCustomOn ==
  /\ UNCHANGED reply_vars
  /\ UNCHANGED << db_rules, db_temp, db_pending, auto_reply_enabled, default_message,
                  now, nextId, pc, resets, activation, execs >>
  /\ LET temp_state == get_temp_state
     IN IF IsSome(temp_state) /\ The(temp_state).temp_active
        THEN ev' = Ev("customon", "blocked_temp_active")
             /\ UNCHANGED << custom_rules_enabled, db_state >>
        ELSE IF custom_rules_enabled
        THEN ev' = Ev("customon", "already_enabled")
             /\ UNCHANGED << custom_rules_enabled, db_state >>
        ELSE /\ custom_rules_enabled' = TRUE
             /\ db_state' = UpdateCustomRulesStatus(db_state, TRUE)
             /\ ev' = EvCount("customon", "enabled", Len(get_all_time_rules))

\* /customoff
CmdCustomOff ==
  /\ UNCHANGED reply_vars
  /\ UNCHANGED << db_rules, db_temp, db_pending, auto_reply_enabled, default_message,
                  now, nextId, pc, resets, activation, execs >>
  /\ IF ~custom_rules_enabled
     THEN ev' = Ev("customoff", "already_disabled")
          /\ UNCHANGED << custom_rules_enabled, db_state >>
     ELSE /\ custom_rules_enabled' = FALSE
          /\ db_state' = UpdateCustomRulesStatus(db_state, FALSE)
          /\ ev' = Ev("customoff", "disabled")

\* /temp <category>
CmdTemp(category) ==
  /\ UNCHANGED reply_vars
  /\ UNCHANGED << db_rules, db_pending, auto_reply_enabled, default_message, now, nextId,
                  pc, resets, execs >>
  /\ LET temp_state == get_temp_state
     IN IF ~is_valid_category(category)
        THEN ev' = [Ev("temp", "invalid_category") EXCEPT !.arg = category]
             /\ UNCHANGED << db_temp, db_state, custom_rules_enabled, activation >>
        ELSE IF IsSome(temp_state) /\ The(temp_state).temp_active
        THEN /\ db_temp' = Some(TempToDict(Reactivated(The(temp_state), category)))
             /\ ev' = [Ev("temp", "updated") EXCEPT !.arg = category, !.val = temp_state]
             /\ UNCHANGED << db_state, custom_rules_enabled, activation >>
        ELSE /\ db_temp' = Some(TempToDict(
                    [temp_active |-> TRUE, temp_category |-> category, temp_expiry |-> None,
                     saved_rules |-> Snapshot(get_all_time_rules),
                     saved_custom_enabled |-> custom_rules_enabled]))
             /\ custom_rules_enabled' = FALSE
             /\ db_state' = IF custom_rules_enabled
                            THEN UpdateCustomRulesStatus(db_state, FALSE)
                            ELSE db_state
             /\ activation' = Some([tuples |-> RuleTuples(db_rules), docs |-> db_rules,
                                    custom |-> custom_rules_enabled])
             /\ ev' = [EvCount("temp", "activated", Len(get_all_time_rules)) EXCEPT
                         !.arg = category]

\* a variant of /tempreset that also drops the pending confirmation
CmdTempResetDropsPending ==
  /\ UNCHANGED reply_vars
  /\ UNCHANGED << auto_reply_enabled, default_message, now, nextId, pc, resets, execs >>
  /\ LET temp_state == get_temp_state
     IN IF temp_state = None \/ ~The(temp_state).temp_active
        THEN ev' = Ev("tempreset", "not_active")
             /\ UNCHANGED << db_rules, custom_rules_enabled, db_state, db_temp, activation,
                             db_pending >>
        ELSE /\ ResetTempMode
             /\ db_pending' = ClearPending(db_pending)
             /\ ev' = [EvCount("tempreset", "reset", Len(The(temp_state).saved_rules)) EXCEPT
                         !.changed = (RuleTuples(db_rules') # RuleTuples(db_rules))]

\* /tempreset
CmdTempReset ==
  /\ UNCHANGED reply_vars
  /\ UNCHANGED << db_pending, auto_reply_enabled, default_message, now, nextId, pc,
                  resets, execs >>
  /\ LET temp_state == get_temp_state
     IN IF temp_state = None \/ ~The(temp_state).temp_active
        THEN ev' = Ev("tempreset", "not_active")
             /\ UNCHANGED << db_rules, custom_rules_enabled, db_state, db_temp, activation >>
        ELSE /\ ResetTempMode
             /\ ev' = [EvCount("tempreset", "reset", Len(The(temp_state).saved_rules)) EXCEPT
                         !.changed = (RuleTuples(db_rules') # RuleTuples(db_rules))]

\* the task created by asyncio.create_task(self._reset_temp_mode()) runs
LazyReset ==
  /\ UNCHANGED reply_vars
  /\ resets > 0
  /\ resets' = resets - 1
  /\ ResetTempMode
  /\ ev' = [Ev("lazy_reset", IF db_temp' # db_temp THEN "reset" ELSE "noop") EXCEPT
              !.changed = (RuleTuples(db_rules') # RuleTuples(db_rules))]
  /\ UNCHANGED << db_pending, auto_reply_enabled, default_message, now, nextId, pc, execs >>

\* /on
CmdOn ==
  /\ UNCHANGED reply_vars
  /\ UNCHANGED << db_rules, db_temp, db_pending, default_message, now, nextId, pc,
                  activation, execs >>
  /\ IF auto_reply_enabled
     THEN ev' = Ev("on", "already_enabled")
          /\ UNCHANGED << auto_reply_enabled, custom_rules_enabled, db_state, resets >>
     ELSE /\ auto_reply_enabled' = TRUE
          /\ custom_rules_enabled' = FALSE
          /\ db_state' = BotStateDoc(TRUE, default_message, FALSE)
          \* current_msg = self._get_current_auto_reply_message(), read after the
          \* flags are set
          /\ LET r == ResolveMessage(get_temp_state, db_rules, FALSE, default_message, now)
             IN /\ resets + (IF r.schedule THEN 1 ELSE 0) <= MaxResets
                /\ resets' = resets + (IF r.schedule THEN 1 ELSE 0)
                /\ ev' = [Ev("on", "enabled") EXCEPT !.msg = r.msg]

\* a variant of /off that leaves custom_rules_enabled as it is
CmdOffKeepsCustom ==
  /\ UNCHANGED reply_vars
  /\ UNCHANGED << db_rules, db_temp, db_pending, default_message, now, nextId, pc,
                  resets, activation, execs, custom_rules_enabled >>
  /\ IF ~auto_reply_enabled
     THEN ev' = Ev("off", "already_disabled")
          /\ UNCHANGED << auto_reply_enabled, db_state >>
     ELSE /\ auto_reply_enabled' = FALSE
          /\ db_state' = BotStateDoc(FALSE, default_message, custom_rules_enabled)
          /\ ev' = Ev("off", "disabled")

\* /off
CmdOff ==
  /\ UNCHANGED reply_vars
  /\ UNCHANGED << db_rules, db_temp, db_pending, default_message, now, nextId, pc,
                  resets, activation, execs >>
  /\ IF ~auto_reply_enabled
     THEN ev' = Ev("off", "already_disabled")
          /\ UNCHANGED << auto_reply_enabled, custom_rules_enabled, db_state >>
     ELSE /\ auto_reply_enabled' = FALSE
          /\ custom_rules_enabled' = FALSE
          /\ db_state' = BotStateDoc(FALSE, default_message, FALSE)
          /\ ev' = Ev("off", "disabled")

\* /set <message>
CmdSet(arg) ==
  /\ UNCHANGED reply_vars
  /\ UNCHANGED << db_rules, db_temp, db_pending, custom_rules_enabled, now, nextId, pc,
                  resets, activation, execs >>
  /\ IF arg = ""
     THEN ev' = Ev("set", "usage")
          /\ UNCHANGED << default_message, auto_reply_enabled, db_state >>
     ELSE /\ default_message' = arg
          /\ auto_reply_enabled' = TRUE
          /\ db_state' = BotStateDoc(TRUE, arg, custom_rules_enabled)
          /\ ev' = [Ev("set", "set") EXCEPT !.arg = arg]

\* /start: the handler reads the current message (and replies with it)
CmdStart ==
  /\ UNCHANGED reply_vars
  /\ LET r == get_current_auto_reply_message
     IN /\ resets + (IF r.schedule THEN 1 ELSE 0) <= MaxResets
        /\ resets' = resets + (IF r.schedule THEN 1 ELSE 0)
        /\ ev' = [Ev("start", IF r.schedule THEN "reset_scheduled" ELSE "read") EXCEPT
                    !.msg = r.msg]
  /\ UNCHANGED << db_rules, db_state, db_temp, db_pending, auto_reply_enabled,
                  custom_rules_enabled, default_message, now, nextId, pc, activation, execs >>

\* time passes
Tick ==
  /\ UNCHANGED reply_vars
  /\ now + TickStep <= MaxNow
  /\ now' = now + TickStep
  /\ ev' = Ev("tick", "")
  /\ UNCHANGED << db_rules, db_state, db_temp, db_pending, auto_reply_enabled,
                  custom_rules_enabled, default_message, nextId, pc, resets, activation, execs >>

(***************************** auto-reply **********************************)
\* the senders of inbound messages: two users, a bot account, the owner
Users == {"u1", "u2"}
Senders == Users \cup {"bot", "owner"}

\* outcomes of client.get_entity(owner_id): a UserStatusOnline status, any other
\* status (or none), an exception
EntityOutcomes == {"online", "offline", "error"}

\* no handler in the slot
NoHandler ==
  [st |-> "idle", sender |-> "", command |-> FALSE, enabled |-> FALSE,
   private |-> FALSE, in_cooldown |-> FALSE, polled |-> 0]

\* the state of the reply path after __init__ (constructed at time 0)
InitReplyPath ==
  /\ recently_replied_users = [u \in Users |-> None]
  /\ owner_actually_online = FALSE
  /\ last_status_check = 0
  /\ handlers = [k \in Slots |-> NoHandler]
  /\ arrivals = 0
  /\ message_count = {}
  /\ last_sent = [u \in Users |-> None]

\* a variant of the cooldown check that still denies at the end of the window
InCooldownInclusive(users, user_id, t) ==
  IsSome(users[user_id]) /\ t - The(users[user_id]) <= REPLY_COOLDOWN_SECONDS

\* _should_reply_to_user, the cooldown check: the user has an entry and less
\* than reply_cooldown seconds have elapsed since it
InCooldown(users, user_id, t) ==
  IsSome(users[user_id]) /\ t - The(users[user_id]) < REPLY_COOLDOWN_SECONDS

\* a variant that records the time and evicts nothing
MarkUserRepliedKeepAll(users, user_id, t) == [users EXCEPT ![user_id] = Some(t)]

\* _mark_user_replied: record the time, then evict the entries not newer than
\* the cutoff once more than CLEANUP_THRESHOLD users are tracked
MarkUserReplied(users, user_id, t) ==
  LET marked == [users EXCEPT ![user_id] = Some(t)]
      tracked == {u \in DOMAIN marked : IsSome(marked[u])}
      cutoff == t - REPLY_COOLDOWN_SECONDS
  IN IF Cardinality(tracked) > CLEANUP_THRESHOLD
     THEN [u \in DOMAIN marked |->
             IF IsSome(marked[u]) /\ The(marked[u]) > cutoff THEN marked[u] ELSE None]
     ELSE marked

\* a variant of the presence test that lets the reply through whatever the
\* signal is
OwnerOnlineIgnored(is_actually_online) == FALSE

\* _should_reply_to_user, the presence test: "if is_actually_online: return False"
OwnerOnlineBlocks(is_actually_online) == is_actually_online

\* _is_owner_actually_online, the rate limit: the cached value is returned
\* while less than status_check_interval seconds have elapsed since the poll
StatusCached(t) == t - last_status_check < STATUS_CHECK_INTERVAL_SECONDS

\* utils.get_ist_date_str: the day of the clock
get_ist_date_str == now \div 86400

\* a variant that sets the count instead of incrementing it
IncrementMessageCountSet(stats, user_id, date) ==
  {d \in stats : ~(d.user_id = user_id /\ d.date = date)}
  \cup {[user_id |-> user_id, date |-> date, count |-> 1]}

\* Database.increment_message_count: update_one with $inc count 1 on the
\* document of (user_id, date), inserted with these keys if absent
IncrementMessageCount(stats, user_id, date) ==
  IF \E d \in stats : d.user_id = user_id /\ d.date = date
  THEN {IF d.user_id = user_id /\ d.date = date THEN [d EXCEPT !.count = @ + 1] ELSE d :
          d \in stats}
  ELSE stats \cup {[user_id |-> user_id, date |-> date, count |-> 1]}

\* a variant of the first tests that lets messages of every chat through
AdmittedAnyChat(enabled, is_private) == enabled

\* _handle_auto_reply, its tests before the first await: "if not
\* self.auto_reply_enabled: return", "if not event.is_private: return"
Admitted(enabled, is_private) == enabled /\ is_private

\* a variant that lets command texts through to the reply
SkipsCommandNever(is_command) == FALSE

\* _handle_auto_reply, "if event.message.message.startswith('/'): return"
SkipsCommand(is_command) == is_command

\* what the handler found at each of its conditions, reported with its outcome
Saw(h, in_cooldown, online) ==
  [enabled |-> h.enabled, private |-> h.private, bot |-> h.sender = "bot",
   owner |-> h.sender = "owner", command |-> h.command,
   in_cooldown |-> in_cooldown, online |-> online]

\* _handle_auto_reply from "if not should_reply" to "await event.reply(message)";
\* is_actually_online is what _is_owner_actually_online returned. The reply is
\* taken to be delivered; a ValueError of the resolver is caught by the
\* handler's except clause, which sends nothing and marks nothing
ReplyOrNot(k, in_cooldown, is_actually_online) ==
  LET h == handlers[k]
      r == get_current_auto_reply_message
      seen == Saw(h, in_cooldown, is_actually_online)
  IN IF OwnerOnlineBlocks(is_actually_online)
     THEN /\ handlers' = [handlers EXCEPT ![k] = NoHandler]
          /\ ev' = [Ev("auto_reply", "owner_online") EXCEPT !.arg = h.sender,
                                                          !.val = Some(seen)]
          /\ UNCHANGED << message_count, last_sent, resets >>
     ELSE /\ message_count' = IncrementMessageCount(message_count, h.sender, get_ist_date_str)
          /\ resets + (IF r.schedule THEN 1 ELSE 0) <= MaxResets
          /\ resets' = resets + (IF r.schedule THEN 1 ELSE 0)
          /\ IF r.msg = "ValueError"
             THEN /\ handlers' = [handlers EXCEPT ![k] = NoHandler]
                  /\ ev' = [Ev("auto_reply", "ValueError") EXCEPT !.arg = h.sender,
                                                               !.val = Some(seen)]
                  /\ UNCHANGED last_sent
             ELSE /\ handlers' = [handlers EXCEPT ![k].st = "reply", ![k].polled = 0]
                  /\ last_sent' = [last_sent EXCEPT ![h.sender] = Some(now)]
                  /\ ev' = [Ev("auto_reply", "replied") EXCEPT !.arg = h.sender,
                                                            !.val = Some(seen),
                                                            !.msg = r.msg]

\* the state the command handlers own, which the reply path only reads
command_vars == << db_rules, db_state, db_temp, db_pending, auto_reply_enabled,
                   custom_rules_enabled, default_message, nextId, pc, activation, execs >>

\* _handle_auto_reply, up to "await event.get_sender()": an inbound message of
\* the sender, private or not, a command text or not (the command handler does
\* not mark inbound messages of other senders as handled); its task takes the
\* first free slot
AutoReplyArrive(k, sender, is_private, is_command) ==
  /\ handlers[k].st = "idle"
  /\ \A j \in Slots : j < k => handlers[j].st # "idle"
  /\ arrivals < MaxMessages
  /\ arrivals' = arrivals + 1
  /\ IF ~Admitted(auto_reply_enabled, is_private)
     THEN /\ ev' = [Ev("auto_reply", IF ~auto_reply_enabled THEN "disabled"
                                     ELSE "not_private") EXCEPT !.arg = sender]
          /\ UNCHANGED handlers
     ELSE /\ ev' = [Ev("auto_reply", "get_sender") EXCEPT !.arg = sender]
          /\ handlers' = [handlers EXCEPT ![k] =
               [st |-> "get_sender", sender |-> sender, command |-> is_command,
                enabled |-> auto_reply_enabled, private |-> is_private,
                in_cooldown |-> FALSE, polled |-> 0]]
  /\ UNCHANGED << recently_replied_users, owner_actually_online, last_status_check,
                  message_count, last_sent, now, resets >>
  /\ UNCHANGED command_vars

\* _handle_auto_reply, from the sender's arrival to the next await: the bot,
\* owner and command tests, the cooldown check, then the presence signal from
\* the cache or from a poll (await client.get_entity)
AutoReplySender(k) ==
  LET h == handlers[k]
      in_cooldown == InCooldown(recently_replied_users, h.sender, now)
      Skip(result) ==
        /\ handlers' = [handlers EXCEPT ![k] = NoHandler]
        /\ ev' = [Ev("auto_reply", result) EXCEPT !.arg = h.sender]
        /\ UNCHANGED << message_count, last_sent, resets >>
  IN /\ h.st = "get_sender"
     /\ IF h.sender = "bot" THEN Skip("bot")
        ELSE IF h.sender = "owner" THEN Skip("owner")
        ELSE IF SkipsCommand(h.command) THEN Skip("command")
        ELSE IF in_cooldown
        THEN /\ handlers' = [handlers EXCEPT ![k] = NoHandler]
             /\ ev' = [Ev("should_reply", "cooldown") EXCEPT !.arg = h.sender,
                         !.val = recently_replied_users[h.sender]]
             /\ UNCHANGED << message_count, last_sent, resets >>
        ELSE IF StatusCached(now)
        THEN ReplyOrNot(k, in_cooldown, owner_actually_online)
        ELSE /\ handlers' = [handlers EXCEPT ![k].st = "get_entity", ![k].polled = now,
                                             ![k].in_cooldown = in_cooldown]
             /\ ev' = [Ev("should_reply", "get_entity") EXCEPT !.arg = h.sender,
                         !.val = recently_replied_users[h.sender]]
             /\ UNCHANGED << message_count, last_sent, resets >>
     /\ UNCHANGED << recently_replied_users, owner_actually_online, last_status_check,
                     arrivals, now >>
     /\ UNCHANGED command_vars

\* _is_owner_actually_online after "await self.client.get_entity", then the
\* rest of the handler up to "await event.reply": last_status_check takes the
\* time read before the await; an exception leaves the cache as it is and
\* returns False
AutoReplyEntity(k, outcome) ==
  /\ handlers[k].st = "get_entity"
  /\ IF outcome = "error"
     THEN /\ UNCHANGED << owner_actually_online, last_status_check >>
          /\ ReplyOrNot(k, handlers[k].in_cooldown, FALSE)
     ELSE /\ owner_actually_online' = (outcome = "online")
          /\ last_status_check' = handlers[k].polled
          /\ ReplyOrNot(k, handlers[k].in_cooldown, outcome = "online")
  /\ UNCHANGED << recently_replied_users, arrivals, now >>
  /\ UNCHANGED command_vars

\* _handle_auto_reply after "await event.reply(message)": _mark_user_replied
AutoReplyMark(k) ==
  /\ handlers[k].st = "reply"
  /\ recently_replied_users' =
       MarkUserReplied(recently_replied_users, handlers[k].sender, now)
  /\ handlers' = [handlers EXCEPT ![k] = NoHandler]
  /\ ev' = [Ev("mark_user_replied", "") EXCEPT !.arg = handlers[k].sender]
  /\ UNCHANGED << owner_actually_online, last_status_check, arrivals, message_count,
                  last_sent, now, resets >>
  /\ UNCHANGED command_vars

\* a variant in which the handler marks the user although the send failed
AutoReplyFailsMarked(k) ==
  /\ handlers[k].st = "reply"
  /\ recently_replied_users' =
       MarkUserReplied(recently_replied_users, handlers[k].sender, now)
  /\ handlers' = [handlers EXCEPT ![k] = NoHandler]
  /\ ev' = [Ev("auto_reply", "send_failed") EXCEPT !.arg = handlers[k].sender]
  /\ UNCHANGED << owner_actually_online, last_status_check, arrivals, message_count,
                  last_sent, now, resets >>
  /\ UNCHANGED command_vars

\* _handle_auto_reply when "await event.reply(message)" raises: the except
\* clause logs the error and the handler ends; last_sent keeps the time the
\* message was handed to the client
AutoReplyFails(k) ==
  /\ handlers[k].st = "reply"
  /\ handlers' = [handlers EXCEPT ![k] = NoHandler]
  /\ ev' = [Ev("auto_reply", "send_failed") EXCEPT !.arg = handlers[k].sender]
  /\ UNCHANGED << recently_replied_users, owner_actually_online, last_status_check,
                  arrivals, message_count, last_sent, now, resets >>
  /\ UNCHANGED command_vars

\* time passes on the reply path
Pass(seconds) ==
  /\ now + seconds <= MaxReplyNow
  /\ now' = now + seconds
  /\ ev' = Ev("tick", "")
  /\ UNCHANGED << resets, reply_vars >>
  /\ UNCHANGED command_vars

\* _mark_user_replied called for the user at the current time, on its own
ProbeMark(user_id) ==
  LET tracked == {u \in DOMAIN recently_replied_users :
                    IsSome(recently_replied_users[u]) \/ u = user_id}
  IN /\ recently_replied_users' = MarkUserReplied(recently_replied_users, user_id, now)
     \* count: len(self.recently_replied_users) as line 1375 reads it
     /\ ev' = [EvCount("mark_user_replied", "", Cardinality(tracked)) EXCEPT
                 !.val = Some(user_id)]
     /\ UNCHANGED << owner_actually_online, last_status_check, handlers, arrivals,
                     message_count, last_sent, now, resets >>
     /\ UNCHANGED command_vars

(**************************** command gate **********************************)
\* chats a message may arrive in: the private chat with a sender (its id is the
\* sender's; the owner's own is Saved Messages) or a group
Chats == Senders \cup {"group"}

\* _is_owner
IsOwner(user_id) == user_id = "owner"

\* _is_saved_messages: sender.id == event.chat_id
IsSavedMessages(sender, chat_id) == sender = chat_id

\* _handle_command for a '/' message that is not the owner's or not in Saved
\* Messages: it returns before the command is parsed (event._handled, which
\* it may set to False, is read by no test that it changes)
CommandIgnored(sender, chat_id) ==
  /\ ~(IsOwner(sender) /\ IsSavedMessages(sender, chat_id))
  /\ arrivals < MaxMessages
  /\ arrivals' = arrivals + 1
  /\ ev' = [Ev("command", IF ~IsOwner(sender) THEN "not_owner" ELSE "not_saved_messages")
            EXCEPT !.arg = sender, !.val = Some(chat_id)]
  /\ UNCHANGED << recently_replied_users, owner_actually_online, last_status_check,
                  handlers, message_count, last_sent, now, resets >>
  /\ UNCHANGED command_vars

(***************************** store failures ******************************)
\* Database.get_all_time_rules when find raises: the except clause logs and
\* returns the empty list
FailedRulesRead == <<>>

\* /temp <category> while the rules collection cannot be read: the handler as
\* in CmdTemp, with the list get_all_time_rules returns on an exception
CmdTempReadFails(category) ==
  /\ UNCHANGED reply_vars
  /\ UNCHANGED << db_rules, db_pending, auto_reply_enabled, default_message, now, nextId,
                  pc, resets, execs >>
  /\ LET temp_state == get_temp_state
     IN IF ~is_valid_category(category)
        THEN ev' = [Ev("temp", "invalid_category") EXCEPT !.arg = category]
             /\ UNCHANGED << db_temp, db_state, custom_rules_enabled, activation >>
        ELSE IF IsSome(temp_state) /\ The(temp_state).temp_active
        THEN /\ db_temp' = Some(TempToDict(Reactivated(The(temp_state), category)))
             /\ ev' = [Ev("temp", "updated") EXCEPT !.arg = category, !.val = temp_state]
             /\ UNCHANGED << db_state, custom_rules_enabled, activation >>
        ELSE /\ db_temp' = Some(TempToDict(
                    [temp_active |-> TRUE, temp_category |-> category, temp_expiry |-> None,
                     saved_rules |-> Snapshot(FailedRulesRead),
                     saved_custom_enabled |-> custom_rules_enabled]))
             /\ custom_rules_enabled' = FALSE
             /\ db_state' = IF custom_rules_enabled
                            THEN UpdateCustomRulesStatus(db_state, FALSE)
                            ELSE db_state
             /\ activation' = Some([tuples |-> RuleTuples(db_rules), docs |-> db_rules,
                                    custom |-> custom_rules_enabled])
             /\ ev' = [EvCount("temp", "activated", Len(FailedRulesRead)) EXCEPT
                         !.arg = category]

(************************** argument count **********************************)
\* the commands that take arguments
ArgCommands == {"custom", "customedit", "removecustom", "temp"}

\* /custom, /customedit, /removecustom or /temp with no argument, and /custom
\* or /customedit with other than two: "if not arg" and "if len(parts) != 2"
\* reply with the usage text and return
CmdBadArgs(cmd) ==
  /\ ev' = Ev(cmd, "usage")
  /\ UNCHANGED << now, resets, reply_vars >>
  /\ UNCHANGED command_vars

(******************************* status ************************************)
\* _cmd_status, "if temp_state and temp_state.temp_active: ... else:
\* active_rule = self.db.get_active_rule(...)": the handler's own call of the
\* matcher is made whenever the stored temp mode is not active
StatusConsultsRules(temp_state) == ~(IsSome(temp_state) /\ The(temp_state).temp_active)

\* /status, run while no other handler is suspended: the presence signal
\* (from the cache, or from a poll with the given outcome), the current
\* message, then the message type from the temp state or the active rule
CmdStatus(outcome) ==
  LET r == get_current_auto_reply_message
      temp_state == get_temp_state
      consults == r.msg # "ValueError" /\ StatusConsultsRules(temp_state)
      active_rule == get_active_rule(get_ist_time)
      msg_type == IF r.msg = "ValueError" THEN "ValueError"
                  ELSE IF ~consults THEN "Temp"
                  ELSE IF IsSome(active_rule) /\ custom_rules_enabled THEN "Time-based"
                  ELSE "Default"
  IN /\ IF StatusCached(now) \/ outcome = "error"
        THEN UNCHANGED << owner_actually_online, last_status_check >>
        ELSE /\ owner_actually_online' = (outcome = "online")
             /\ last_status_check' = now
     /\ resets + (IF r.schedule THEN 1 ELSE 0) <= MaxResets
     /\ resets' = resets + (IF r.schedule THEN 1 ELSE 0)
     /\ ev' = [Ev("status", msg_type) EXCEPT
                 !.msg = r.msg,
                 !.val = Some([resolver |-> r.matcher, status |-> consults])]
     /\ UNCHANGED << recently_replied_users, handlers, arrivals, message_count,
                     last_sent, now >>
     /\ UNCHANGED command_vars

(******************************* inputs ************************************)
DEFAULT_MESSAGE == "Hey! I'm currently away. I'll get back to you soon"

\* category arguments: the table's keys and a text that is none of them
CategoryInputs == DOMAIN CATEGORIES \cup {"bogus"}

\* time-range arguments "HH:MM-HH:MM": a plain window and a window that wraps
\* midnight
ValidRanges == { << << 0, 0 >>, << 0, 1 >> >>,
                 << << 0, 1 >>, << 0, 0 >> >> }

\* those, and a text whose hour is 24
RangeInputs == ValidRanges \cup { << << 0, 0 >>, << 24, 0 >> >> }

\* /removecustom arguments: the 8-character prefix of a rule id, or another text
Identifiers(names) ==
  {[len8 |-> TRUE, id |-> i, name |-> "prefix"] : i \in 1..MaxId}
  \cup {[len8 |-> FALSE, id |-> 0, name |-> c] : c \in names}

\* /set arguments
MessageInputs == {"", "brb", CATEGORIES["work"]}

AllIdle == \A k \in Slots : pc[k] = "idle"

(*************************** specifications ********************************)
\* the state after start() on an empty store: _load_state_from_db finds no
\* document and saves the constructor's defaults
InitFresh ==
  /\ db_rules = <<>>
  /\ db_state = BotStateDoc(FALSE, DEFAULT_MESSAGE, FALSE)
  /\ db_temp = None
  /\ db_pending = None
  /\ auto_reply_enabled = FALSE
  /\ custom_rules_enabled = FALSE
  /\ default_message = DEFAULT_MESSAGE
  /\ now = 0
  /\ nextId = 1
  /\ pc = [k \in Slots |-> "idle"]
  /\ resets = 0
  /\ ev = Ev("init", "")
  /\ activation = None
  /\ execs = 0
  /\ InitReplyPath

\* a temp_state document the store may hold at start(): temp mode with an
\* expiry (TempState.temp_expiry, read by the resolver and by /listtemp)
StoredTempWithExpiry(expiry) ==
  [temp_active |-> TRUE, temp_category |-> "work", temp_expiry |-> Some(IsoFormat(expiry)),
   saved_rules |-> <<>>, saved_custom_enabled |-> FALSE]

\* start() on an empty store, or on a store that holds such a document
Init ==
  \/ InitFresh
  \/ \E doc \in {Some(StoredTempWithExpiry(MaxNow))} :
       /\ db_temp = doc
       /\ db_rules = <<>>
       /\ db_state = BotStateDoc(FALSE, DEFAULT_MESSAGE, FALSE)
       /\ db_pending = None
       /\ auto_reply_enabled = FALSE
       /\ custom_rules_enabled = FALSE
       /\ default_message = DEFAULT_MESSAGE
       /\ now = 0
       /\ nextId = 1
       /\ pc = [k \in Slots |-> "idle"]
       /\ resets = 0
       /\ ev = Ev("init", "")
       /\ activation = None
       /\ execs = 0
       /\ InitReplyPath

\* the owner's rule and temp-mode commands; the owner sends a command after
\* the previous one has been answered: a command starts when no handler is
\* suspended
Next ==
  \/ \E c \in DOMAIN CATEGORIES, r \in ValidRanges : AllIdle /\ CmdCustom(c, r)
  \/ \E i \in 1..MaxId, r \in ValidRanges : AllIdle /\ CmdCustomEdit(i, r)
  \/ \E x \in Identifiers(DOMAIN CATEGORIES) : AllIdle /\ CmdRemoveCustom(x)
  \/ AllIdle /\ CmdCustomRemoveAll
  \/ AllIdle /\ CmdConfirm(1)
  \/ ConfirmClear(1)
  \/ AllIdle /\ CmdCancel
  \/ AllIdle /\ CmdCustomOn
  \/ AllIdle /\ CmdCustomOff
  \/ \E c \in DOMAIN CATEGORIES : AllIdle /\ CmdTemp(c)
  \/ AllIdle /\ CmdTempReset

Spec == Init /\ [][Next]_vars

(* --- the confirmation workflow with handlers interleaving at their awaits --- *)
\* Telethon runs each update's handlers in a task of its own: a handler may
\* start while another is suspended at an await
ConcNext ==
  \/ \E r \in ValidRanges : CmdCustom("work", r)
  \/ \E x \in Identifiers({"work"}) : CmdRemoveCustom(x)
  \/ \E k \in Slots : CmdConfirm(k)
  \/ \E k \in Slots : ConfirmClear(k)
  \/ CmdCancel
  \/ Tick

SpecConc == InitFresh /\ [][ConcNext]_vars

(* --- every command of the owner, one handler at a time --- *)
CommandsNext ==
  \/ \E r \in ValidRanges : AllIdle /\ CmdCustom("work", r)
  \/ \E i \in 1..MaxId, r \in ValidRanges : AllIdle /\ CmdCustomEdit(i, r)
  \/ \E x \in Identifiers({"work"}) : AllIdle /\ CmdRemoveCustom(x)
  \/ AllIdle /\ CmdConfirm(1)
  \/ ConfirmClear(1)
  \/ AllIdle /\ CmdCancel
  \/ AllIdle /\ CmdCustomOn
  \/ AllIdle /\ CmdCustomOff
  \/ \E c \in DOMAIN CATEGORIES : AllIdle /\ CmdTemp(c)
  \/ AllIdle /\ CmdTempReset
  \/ AllIdle /\ CmdOn
  \/ AllIdle /\ CmdOff
  \/ \E arg \in MessageInputs : AllIdle /\ CmdSet(arg)

SpecCommands == InitFresh /\ [][CommandsNext]_vars

(* --- the commands over every argument, well-formed or not --- *)
RejectNext ==
  \/ \E c \in CategoryInputs, r \in RangeInputs : CmdCustom(c, r)
  \/ \E i \in 1..MaxId, r \in RangeInputs : CmdCustomEdit(i, r)
  \/ \E x \in Identifiers(CategoryInputs) : CmdRemoveCustom(x)
  \/ \E c \in CategoryInputs : CmdTemp(c)
  \/ \E cmd \in ArgCommands : CmdBadArgs(cmd)

SpecReject == InitFresh /\ [][RejectNext]_vars

(* --- temp mode while reads of the rules collection may fail --- *)
FaultNext ==
  \/ \E c \in DOMAIN CATEGORIES, r \in ValidRanges : CmdCustom(c, r)
  \/ \E c \in DOMAIN CATEGORIES : CmdTemp(c)
  \/ \E c \in DOMAIN CATEGORIES : CmdTempReadFails(c)
  \/ CmdTempReset

SpecFault == InitFresh /\ [][FaultNext]_vars

(* --- _mark_user_replied as a function of the cache and the clock --- *)
\* numbers of tracked users around the eviction threshold
TrackedCounts ==
  {0, 1, CLEANUP_THRESHOLD - 1, CLEANUP_THRESHOLD, CLEANUP_THRESHOLD + 1, MaxTracked}

\* the instant of the probe, and entry times at the edge of the cooldown
\* window and inside it (an entry written at time 0 is older than the window)
ProbeNow == MaxReplyNow + ReplyStep
EntryEdge == ProbeNow - REPLY_COOLDOWN_SECONDS
EntryFresh == MaxReplyNow

\* caches of users 1..MaxTracked: the first a entries old, up to b at the edge,
\* up to c inside the window, the rest absent
DrawnCaches ==
  {[u \in 1..MaxTracked |->
      IF u <= a THEN Some(0)
      ELSE IF u <= b THEN Some(EntryEdge)
      ELSE IF u <= c THEN Some(EntryFresh)
      ELSE None] :
     a \in TrackedCounts, b \in TrackedCounts, c \in TrackedCounts}

InitCache ==
  /\ recently_replied_users \in DrawnCaches
  /\ now = ProbeNow
  /\ owner_actually_online = FALSE
  /\ last_status_check = 0
  /\ handlers = [k \in Slots |-> NoHandler]
  /\ arrivals = 0
  /\ message_count = {}
  /\ last_sent = [u \in Users |-> None]
  /\ db_rules = <<>>
  /\ db_state = BotStateDoc(TRUE, DEFAULT_MESSAGE, FALSE)
  /\ db_temp = None
  /\ db_pending = None
  /\ auto_reply_enabled = TRUE
  /\ custom_rules_enabled = FALSE
  /\ default_message = DEFAULT_MESSAGE
  /\ nextId = 1
  /\ pc = [k \in Slots |-> "idle"]
  /\ resets = 0
  /\ ev = Ev("init", "")
  /\ activation = None
  /\ execs = 0

CacheNext == \E u \in {1, CLEANUP_THRESHOLD, MaxTracked} : ProbeMark(u)

SpecCache == InitCache /\ [][CacheNext]_vars

(* --- messages of every sender in every chat, over a store with an override --- *)
\* temp states start() may find: none, or temp mode with an expiry ahead
GateTemps ==
  {None,
   Some([temp_active |-> TRUE, temp_category |-> "work",
         temp_expiry |-> Some(IsoFormat(ReplyStep)),
         saved_rules |-> <<>>, saved_custom_enabled |-> TRUE])}

InitGate ==
  /\ db_temp \in GateTemps
  /\ db_rules = << [rule_id |-> 1, category |-> "driving",
                    start_time |-> << 0, 0 >>, end_time |-> << 0, MaxMinute >>] >>
  /\ custom_rules_enabled = FALSE
  /\ auto_reply_enabled = TRUE
  /\ default_message = DEFAULT_MESSAGE
  /\ db_state = BotStateDoc(auto_reply_enabled, default_message, custom_rules_enabled)
  /\ db_pending = None
  /\ now = 0
  /\ nextId = Len(db_rules) + 1
  /\ pc = [k \in Slots |-> "idle"]
  /\ resets = 0
  /\ ev = Ev("init", "")
  /\ activation = None
  /\ execs = 0
  /\ InitReplyPath

\* the owner's commands here are sent in Saved Messages
GateNext ==
  \/ \E s \in Senders, c \in Chats : CommandIgnored(s, c)
  \/ \E k \in Slots, s \in Senders, is_private \in BOOLEAN, is_command \in BOOLEAN :
       AutoReplyArrive(k, s, is_private, is_command)
  \/ \E k \in Slots : AutoReplySender(k)
  \/ \E k \in Slots, o \in EntityOutcomes : AutoReplyEntity(k, o)
  \/ \E k \in Slots : AutoReplyMark(k)
  \/ LazyReset
  \/ CmdCustomOn
  \/ CmdTempReset
  \/ Pass(ReplyStep)

SpecGate == InitGate /\ [][GateNext]_vars

(* --- the process stops inside activation and is started again --- *)
\* the places inside _cmd_temp's activation where the process can stop: before
\* save_temp_state, between it and update_custom_rules_status, and after both
StopPoints == {"before_save", "after_save", "after_flag"}

\* the process is up: the last step did not stop it
Running == ev.cmd # "stopped"

\* a variant in which both writes happen together
FlagWrittenWithSnapshot(point) == point # "before_save"

\* the stored flag activation leaves when it stops at a point: the write of
\* update_custom_rules_status has happened only after_flag
FlagWrittenAt(point) == point = "after_flag"

\* /temp <category> with no override active, and the process stops at the
\* point (killed, or the host goes down): the store keeps the writes made
\* before it, the values in memory are lost
StopInTemp(category, point) ==
  /\ Running
  /\ is_valid_category(category)
  /\ ~(IsSome(get_temp_state) /\ The(get_temp_state).temp_active)
  /\ UNCHANGED reply_vars
  /\ UNCHANGED << db_rules, db_pending, auto_reply_enabled, custom_rules_enabled,
                  default_message, now, nextId, pc, resets, execs >>
  /\ IF point = "before_save"
     THEN UNCHANGED << db_temp, activation >>
     ELSE /\ db_temp' = Some(TempToDict(
                 [temp_active |-> TRUE, temp_category |-> category, temp_expiry |-> None,
                  saved_rules |-> Snapshot(get_all_time_rules),
                  saved_custom_enabled |-> custom_rules_enabled]))
          /\ activation' = Some([tuples |-> RuleTuples(db_rules), docs |-> db_rules,
                                 custom |-> custom_rules_enabled])
  /\ db_state' = IF custom_rules_enabled /\ FlagWrittenAt(point)
                 THEN UpdateCustomRulesStatus(db_state, FALSE)
                 ELSE db_state
  /\ ev' = [Ev("stopped", point) EXCEPT !.arg = category]

\* the process is started again: the constructor's values, then start() loads
\* the three flags from the bot_state document and polls the presence
Restart(is_online) ==
  /\ ~Running
  /\ auto_reply_enabled' = db_state.auto_reply_enabled
  /\ default_message' = db_state.default_message
  /\ custom_rules_enabled' = db_state.custom_rules_enabled
  /\ recently_replied_users' = [u \in Users |-> None]
  /\ owner_actually_online' = is_online
  /\ last_status_check' = now
  /\ handlers' = [k \in Slots |-> NoHandler]
  /\ pc' = [k \in Slots |-> "idle"]
  /\ resets' = 0
  /\ ev' = [Ev("restart", ev.result) EXCEPT !.arg = ev.arg]
  /\ UNCHANGED << db_rules, db_state, db_temp, db_pending, now, nextId, activation, execs,
                  arrivals, message_count, last_sent >>

CrashNext ==
  \/ Running /\ \E c \in DOMAIN CATEGORIES, r \in ValidRanges : CmdCustom(c, r)
  \/ Running /\ CmdCustomOn
  \/ Running /\ \E c \in DOMAIN CATEGORIES : CmdTemp(c)
  \/ Running /\ CmdTempReset
  \/ \E c \in DOMAIN CATEGORIES, point \in StopPoints : StopInTemp(c, point)
  \/ \E is_online \in BOOLEAN : Restart(is_online)

SpecCrash == InitFresh /\ [][CrashNext]_vars

(* --- the auto-reply path with handlers interleaving at their awaits --- *)
ReplyNext ==
  \/ \E k \in Slots, s \in Senders, is_private \in BOOLEAN, is_command \in BOOLEAN :
       AutoReplyArrive(k, s, is_private, is_command)
  \/ \E k \in Slots : AutoReplySender(k)
  \/ \E k \in Slots, o \in EntityOutcomes : AutoReplyEntity(k, o)
  \/ \E k \in Slots : AutoReplyMark(k)
  \/ CmdOn
  \/ CmdOff
  \/ Pass(ReplyStep)

SpecReply == InitFresh /\ [][ReplyNext]_vars

(* --- the auto-reply path over the stores it may read --- *)
\* stores start() may find: empty; temp mode on a category of the table or on
\* one that is not in it; custom rules on with a rule of either kind
ReplyStores ==
  {[temp |-> None, rules |-> <<>>, custom |-> FALSE]}
  \cup {[temp |-> Some([temp_active |-> TRUE, temp_category |-> c, temp_expiry |-> None,
                        saved_rules |-> <<>>, saved_custom_enabled |-> FALSE]),
          rules |-> <<>>, custom |-> FALSE] : c \in {"work", "bogus"}}
  \cup {[temp |-> None,
          rules |-> << [rule_id |-> 1, category |-> c,
                        start_time |-> << 0, 0 >>, end_time |-> << 0, MaxMinute >>] >>,
          custom |-> TRUE] : c \in {"driving", "bogus"}}

InitStores ==
  /\ \E s \in ReplyStores :
       /\ db_temp = s.temp
       /\ db_rules = s.rules
       /\ custom_rules_enabled = s.custom
  /\ auto_reply_enabled = TRUE
  /\ default_message = DEFAULT_MESSAGE
  /\ db_state = BotStateDoc(auto_reply_enabled, default_message, custom_rules_enabled)
  /\ db_pending = None
  /\ now = 0
  /\ nextId = Len(db_rules) + 1
  /\ pc = [k \in Slots |-> "idle"]
  /\ resets = 0
  /\ ev = Ev("init", "")
  /\ activation = None
  /\ execs = 0
  /\ InitReplyPath

StoresNext ==
  \/ CmdStart
  \/ \E k \in Slots, u \in Users : AutoReplyArrive(k, u, TRUE, FALSE)
  \/ \E k \in Slots : AutoReplySender(k)
  \/ \E k \in Slots, o \in EntityOutcomes : AutoReplyEntity(k, o)
  \/ \E k \in Slots : AutoReplyMark(k)
  \/ Pass(ReplyStep)

SpecStores == InitStores /\ [][StoresNext]_vars

(* --- auto-reply while the resolver or the send may fail --- *)
SendNext ==
  \/ \E k \in Slots, u \in Users : AutoReplyArrive(k, u, TRUE, FALSE)
  \/ \E k \in Slots : AutoReplySender(k)
  \/ \E k \in Slots, o \in EntityOutcomes : AutoReplyEntity(k, o)
  \/ \E k \in Slots : AutoReplyMark(k)
  \/ \E k \in Slots : AutoReplyFails(k)
  \/ Pass(ReplyStep)

SpecSend == InitStores /\ [][SendNext]_vars

(* --- the resolver over every stored state it may read --- *)
\* rule documents drawn from the given categories and "HH:MM" pairs, ids 1..n
RECURSIVE RuleLists(_, _, _)
RuleLists(n, cats, ranges) ==
  IF n = 0 THEN {<<>>}
  ELSE LET shorter == RuleLists(n - 1, cats, ranges)
       IN shorter \cup
          {Append(l, [rule_id |-> Len(l) + 1, category |-> c,
                      start_time |-> r[1], end_time |-> r[2]]) :
             l \in {x \in shorter : Len(x) = n - 1}, c \in cats, r \in ranges}

\* temp_state documents: none, inactive, active without expiry, active with one
TempDocs ==
  {None}
  \cup {Some([temp_active |-> a, temp_category |-> c, temp_expiry |-> e,
              saved_rules |-> <<>>, saved_custom_enabled |-> FALSE]) :
          a \in BOOLEAN, c \in DOMAIN CATEGORIES,
          e \in {None, Some(IsoFormat(2 * TickStep))}}

InitResolve ==
  /\ db_rules \in RuleLists(MaxDrawn, DOMAIN CATEGORIES, ValidRanges)
  /\ db_temp \in TempDocs
  /\ custom_rules_enabled \in BOOLEAN
  /\ default_message \in {DEFAULT_MESSAGE, CATEGORIES["work"]}
  /\ auto_reply_enabled = TRUE
  /\ db_state = BotStateDoc(auto_reply_enabled, default_message, custom_rules_enabled)
  /\ db_pending = None
  /\ now = 0
  /\ nextId = Len(db_rules) + 1
  /\ pc = [k \in Slots |-> "idle"]
  /\ resets = 0
  /\ ev = Ev("init", "")
  /\ activation = None
  /\ execs = 0
  /\ InitReplyPath

ResolveNext ==
  \/ CmdTempReset
  \/ CmdStart
  \/ \E o \in EntityOutcomes : CmdStatus(o)
  \/ LazyReset
  \/ Tick

SpecResolve == InitResolve /\ [][ResolveNext]_vars

(* --- reset tasks of an expired override among the owner's commands --- *)
\* a temp_state document with an expiry the store holds at start(), with a
\* snapshot of saved rules
StoredTempWithSnapshot(saved, custom) ==
  [temp_active |-> TRUE, temp_category |-> "work", temp_expiry |-> Some(IsoFormat(TickStep)),
   saved_rules |-> Snapshot(AllTimeRules(saved)), saved_custom_enabled |-> custom]

InitLazy ==
  /\ db_rules \in RuleLists(1, {"sleep"}, ValidRanges)
  /\ \E saved \in RuleLists(1, {"work"}, ValidRanges), custom \in BOOLEAN :
       db_temp = Some(StoredTempWithSnapshot(saved, custom))
  /\ custom_rules_enabled = FALSE
  /\ default_message = DEFAULT_MESSAGE
  /\ auto_reply_enabled = TRUE
  /\ db_state = BotStateDoc(auto_reply_enabled, default_message, custom_rules_enabled)
  /\ db_pending \in {None, Some(PendingToDict("remove_custom_category", Some("sleep"),
                                            None, 0))}
  /\ now = 0
  /\ nextId = Len(db_rules) + 1
  /\ pc = [k \in Slots |-> "idle"]
  /\ resets = 0
  /\ ev = Ev("init", "")
  /\ activation = None
  /\ execs = 0
  /\ InitReplyPath

\* a task created by create_task runs when the loop reaches it: handlers that
\* were ready before it run first
LazyNext ==
  \/ CmdStart
  \/ \E c \in DOMAIN CATEGORIES : CmdTemp(c)
  \/ CmdTempReset
  \/ LazyReset
  \/ Tick

SpecLazy == InitLazy /\ [][LazyNext]_vars

\* the event loop runs every task it holds
SpecLazyFair == SpecLazy /\ WF_vars(LazyReset)

(* --- the matcher as a function of the rule collection and the probe time --- *)
\* "HH:MM" texts of the modelled minutes
ClockTexts == {<< 0, m >> : m \in 0..MaxMinute}

\* those, and the ends of a night window
WindowTexts == ClockTexts \cup {<< 22, 0 >>, << 6, 0 >>}

\* probe instants: the start, the second after and the last second of each
\* modelled minute; an instant of the late evening, of the early morning and noon
ProbeTimes ==
  {TimeOf(0, m) + sec : m \in 0..MaxMinute, sec \in {0, 1, 59}}
  \cup {TimeOf(23, 30), TimeOf(5, 0), TimeOf(12, 0)}

\* is_time_in_range applied to a probe time and a window
ProbeRange(check_time, start_time, end_time) ==
  /\ UNCHANGED reply_vars
  /\ ev' = [Ev("is_time_in_range",
               IF is_time_in_range(check_time, start_time, end_time) THEN "true" ELSE "false")
            EXCEPT !.val = Some([check_time |-> check_time, start_time |-> start_time,
                                 end_time |-> end_time])]
  /\ UNCHANGED << db_rules, db_state, db_temp, db_pending, auto_reply_enabled,
                  custom_rules_enabled, default_message, now, nextId, pc, resets,
                  activation, execs >>

\* get_active_rule applied to the stored rules at the clock's time of day
ProbeMatch ==
  /\ UNCHANGED reply_vars
  /\ ev' = [Ev("get_active_rule", "") EXCEPT !.val = get_active_rule(get_ist_time)]
  /\ UNCHANGED << db_rules, db_state, db_temp, db_pending, auto_reply_enabled,
                  custom_rules_enabled, default_message, now, nextId, pc, resets,
                  activation, execs >>

\* a store holding the given rule collections, read at a probe instant
InitProbe(collections) ==
  /\ db_rules \in collections
  /\ now \in ProbeTimes
  /\ db_state = BotStateDoc(FALSE, DEFAULT_MESSAGE, FALSE)
  /\ db_temp = None
  /\ db_pending = None
  /\ auto_reply_enabled = FALSE
  /\ custom_rules_enabled = FALSE
  /\ default_message = DEFAULT_MESSAGE
  /\ nextId = Len(db_rules) + 1
  /\ pc = [k \in Slots |-> "idle"]
  /\ resets = 0
  /\ ev = Ev("init", "")
  /\ activation = None
  /\ execs = 0
  /\ InitReplyPath

InitMatch == InitProbe(RuleLists(MaxDrawn, {"work"}, ClockTexts \X ClockTexts))

MatchNext == ProbeMatch

SpecMatch == InitMatch /\ [][MatchNext]_vars

InitRange == InitProbe({<<>>})

RangeNext ==
  \E s \in WindowTexts, e \in WindowTexts :
    ProbeRange(get_ist_time, The(parse_time(s)), The(parse_time(e)))

SpecRange == InitRange /\ [][RangeNext]_vars

(****************************** properties *********************************)
\* the override record a state holds is active
OverrideActive(doc) == IsSome(doc) /\ The(doc).temp_active

\* a window start-end contains the time t, end points included; a window whose
\* start is after its end runs over midnight
Contains(t, start, end) ==
  \/ start <= end /\ start <= t /\ t <= end
  \/ start > end /\ (t >= start \/ t <= end)

\* positions of the stored rules whose window contains the time t
Matching(docs, t) ==
  {i \in 1..Len(docs) :
     Contains(t, TimeOf(docs[i].start_time[1], docs[i].start_time[2]),
                 TimeOf(docs[i].end_time[1], docs[i].end_time[2]))}

First(hits) == CHOOSE i \in hits : \A j \in hits : i <= j

\* C1: while an override is active and not expired (it has no expiry, or the
\* clock is before its expiry), the resolved message is the message of the
\* override's category, whatever the rules, the flag and the default message are.
C1_OverrideWins ==
  (/\ ev.cmd = "start"
   /\ OverrideActive(db_temp)
   /\ \/ The(db_temp).temp_expiry = None
      \/ now < FromIsoFormat(The(The(db_temp).temp_expiry)))
  => ev.msg = CATEGORIES[The(db_temp).temp_category]

\* C1 happens: an override whose expiry lies ahead is resolved while the flag
\* is on, a rule of another category matches and the default message differs
C1_Witness ==
  /\ ev.cmd = "start"
  /\ OverrideActive(db_temp)
  /\ IsSome(The(db_temp).temp_expiry)
  /\ now > 0
  /\ now < FromIsoFormat(The(The(db_temp).temp_expiry))
  /\ custom_rules_enabled
  /\ Matching(db_rules, get_ist_time) # {}
  /\ db_rules[First(Matching(db_rules, get_ist_time))].category # The(db_temp).temp_category
  /\ default_message # ev.msg
  /\ ev.msg = CATEGORIES[The(db_temp).temp_category]

\* C2: with no override active, the resolved message is the message of the
\* first matching rule's category if and only if custom_rules_enabled is true
\* and some rule contains the time of day; otherwise it is the default message.
C2_RulesOrDefault ==
  (ev.cmd = "start" /\ ~OverrideActive(db_temp))
  => ev.msg = IF custom_rules_enabled /\ Matching(db_rules, get_ist_time) # {}
              THEN CATEGORIES[db_rules[First(Matching(db_rules, get_ist_time))].category]
              ELSE default_message

\* C2 happens: no override, the flag is off, a rule matches, and the default
\* message is the reply
C2_Witness ==
  /\ ev.cmd = "start"
  /\ ~OverrideActive(db_temp)
  /\ ~custom_rules_enabled
  /\ Matching(db_rules, get_ist_time) # {}
  /\ ev.msg = default_message
  /\ ev.msg # CATEGORIES[db_rules[First(Matching(db_rules, get_ist_time))].category]

\* C3: is_time_in_range(t, start, end) is true iff start <= end and
\* start <= t <= end, or start > end and (t >= start or t <= end); both end
\* points are contained; 22:00-06:00 contains 23:30 and 05:00 and not 12:00.
C3_RangeContains ==
  ev.cmd = "is_time_in_range"
  => LET t == The(ev.val).check_time
         start == The(ev.val).start_time
         end == The(ev.val).end_time
         night == start = TimeOf(22, 0) /\ end = TimeOf(6, 0)
     IN /\ (ev.result = "true") <=> Contains(t, start, end)
        /\ t \in {start, end} => ev.result = "true"
        /\ night /\ t \in {TimeOf(23, 30), TimeOf(5, 0)} => ev.result = "true"
        /\ night /\ t = TimeOf(12, 0) => ev.result = "false"

\* C3 happens: the window 22:00-06:00 is probed at 23:30 and contains it
C3_Witness ==
  /\ ev.cmd = "is_time_in_range"
  /\ ev.val = Some([check_time |-> TimeOf(23, 30), start_time |-> TimeOf(22, 0),
                    end_time |-> TimeOf(6, 0)])
  /\ ev.result = "true"

\* C4: get_active_rule returns the first rule, in stored order, whose window
\* contains the probe time, and none when the collection is empty or no rule
\* matches; a single matching rule is returned wherever it stands, and of two
\* overlapping matching rules the earlier one.
C4_FirstMatch ==
  ev.cmd = "get_active_rule"
  => LET hits == Matching(db_rules, get_ist_time)
     IN IF hits = {} THEN ev.val = None
        ELSE /\ IsSome(ev.val)
             /\ The(ev.val).rule_id = db_rules[First(hits)].rule_id
             /\ The(ev.val).category = db_rules[First(hits)].category
             /\ StrfHM(The(ev.val).start_time) = db_rules[First(hits)].start_time
             /\ StrfHM(The(ev.val).end_time) = db_rules[First(hits)].end_time

\* C4 happens: two different windows both contain the probe time and the
\* earlier rule is the one returned
C4_Witness ==
  /\ ev.cmd = "get_active_rule"
  /\ Matching(db_rules, get_ist_time) = {1, 2}
  /\ << db_rules[1].start_time, db_rules[1].end_time >>
       # << db_rules[2].start_time, db_rules[2].end_time >>
  /\ IsSome(ev.val)
  /\ The(ev.val).rule_id = db_rules[1].rule_id

\* C5: a reset restores exactly the rule set, as (category, start, end) tuples,
\* and the custom_rules_enabled value (in memory and stored) that existed when
\* the override was activated, whatever was added, edited or deleted meanwhile.
C5_ResetRestores ==
  [][(ev'.cmd = "tempreset" /\ ev'.result = "reset" /\ IsSome(activation))
     => /\ RuleTuples(db_rules') = The(activation).tuples
        /\ Len(db_rules') = Len(The(activation).docs)
        /\ custom_rules_enabled' = The(activation).custom
        /\ db_state'.custom_rules_enabled = The(activation).custom
        /\ db_temp' = None]_vars

\* C5 happens: a reset has replaced a rule set that differed from the snapshot
\* by a non-empty snapshot, and has turned the flag back on
C5_Witness ==
  /\ ev.cmd = "tempreset"
  /\ ev.result = "reset"
  /\ ev.changed
  /\ ev.count > 0
  /\ db_rules # <<>>
  /\ custom_rules_enabled

\* C6: /temp with a valid category and no override active stores a record that
\* is active, has the requested category and no expiry, and holds the live
\* rules and the flag as they were; then the flag is false in memory and in the
\* store, and the live rules are unchanged.
C6_ActivateSnapshots ==
  [][(ev'.cmd = "temp" /\ is_valid_category(ev'.arg) /\ ~OverrideActive(db_temp))
     => /\ ev'.result = "activated"
        /\ IsSome(db_temp')
        /\ The(db_temp').temp_active
        /\ The(db_temp').temp_category = ev'.arg
        /\ The(db_temp').temp_expiry = None
        /\ The(db_temp').saved_rules = db_rules
        /\ The(db_temp').saved_custom_enabled = custom_rules_enabled
        /\ ~custom_rules_enabled'
        /\ ~db_state'.custom_rules_enabled
        /\ db_rules' = db_rules]_vars

\* C6 happens: an activation has saved a non-empty rule list and a true flag
C6_Witness ==
  /\ ev.cmd = "temp"
  /\ ev.result = "activated"
  /\ OverrideActive(db_temp)
  /\ The(db_temp).saved_rules # <<>>
  /\ The(db_temp).saved_rules = db_rules
  /\ The(db_temp).saved_custom_enabled
  /\ ~custom_rules_enabled

C8_SecondConfirmFindsNothing ==
  [][(/\ ev.cmd = "confirm"
      /\ ev.result \notin {"nothing_to_confirm", "expired"}
      /\ ev'.cmd = "confirm")
     => /\ ev'.result = "nothing_to_confirm"
        /\ db_rules' = db_rules
        /\ execs' = execs
        /\ execs = 1]_vars

\* C9: a /confirm when now - created_at >= 60 s reports "expired", clears the
\* pending confirmation and leaves the rules alone; nothing but a confirm, a
\* cancel or a new request changes the stored pending confirmation.
C9_ExpiredConfirm ==
  [][/\ (/\ ev'.cmd = "confirm"
         /\ IsSome(db_pending)
         /\ now - FromIsoFormat(The(db_pending).timestamp) >= CONFIRMATION_EXPIRY_SECONDS)
        => /\ ev'.result = "expired"
           /\ db_pending' = None
           /\ db_rules' = db_rules
           /\ execs' = execs
     /\ db_pending' # db_pending
        => ev'.cmd \in {"confirm", "confirm_clear", "cancel", "removecustom"}]_vars

\* C9 happens: a confirmation exactly 60 s old was confirmed, reported expired
\* and cleared, and the rule it targeted is still stored
C9_Witness ==
  /\ ev.cmd = "confirm"
  /\ ev.result = "expired"
  /\ IsSome(ev.val)
  /\ now - The(ev.val).timestamp = CONFIRMATION_EXPIRY_SECONDS
  /\ db_pending = None
  /\ execs = 0
  /\ \E i \in 1..Len(db_rules) : Some(db_rules[i].rule_id) = The(ev.val).rule_id

\* C10: an executed /confirm removes exactly the targeted rules (every rule of
\* the category, or the rule with the stored id) and no other; the reported
\* count is the number removed; a count of 0 is reported as a valid outcome,
\* not as an error.
C10_RemovesExactlyTargeted ==
  [][(ev'.cmd = "confirm" /\ ev'.result \notin {"nothing_to_confirm", "expired"})
     => LET confirmation == The(ev'.val)
            targeted(d) == IF confirmation.action_type = "remove_custom"
                           THEN Some(d.rule_id) = confirmation.rule_id
                           ELSE Some(d.category) = confirmation.category
        IN /\ db_rules' = SelectSeq(db_rules, LAMBDA d : ~targeted(d))
           /\ ev'.count = Len(db_rules) - Len(db_rules')
           /\ ev'.result \in {"rule_removed", "removed_count", "no_rules_found"}]_vars

\* the pending document a /removecustom with the given argument stores when
\* it is sent at the time t over the rules docs
Requested(docs, identifier, t) ==
  LET byId == {i \in 1..Len(docs) : identifier.len8 /\ docs[i].rule_id = identifier.id}
  IN IF byId # {}
     THEN [action_type |-> "remove_custom", category |-> Some(docs[First(byId)].category),
           rule_id |-> Some(identifier.id), timestamp |-> IsoFormat(t)]
     ELSE [action_type |-> "remove_custom_category", category |-> Some(identifier.name),
           rule_id |-> None, timestamp |-> IsoFormat(t)]

\* the program state a command without effect leaves alone
Untouched ==
  UNCHANGED << db_rules, db_state, db_temp, db_pending, auto_reply_enabled,
               custom_rules_enabled, default_message >>

\* C11: a /customremoveall sent while at least one rule is stored succeeds and
\* leaves a pending confirmation of type delete-all stamped with the current
\* time; confirming it within the window removes every rule and reports their
\* number.
C11_RemoveAllRequested ==
  [][/\ (ev'.cmd = "customremoveall" /\ db_rules # <<>>)
        => /\ ev'.result # "TypeError"
           /\ IsSome(db_pending')
           /\ The(db_pending').action_type = "remove_all_custom"
           /\ The(db_pending').timestamp = IsoFormat(now)
     /\ (/\ ev'.cmd = "confirm"
         /\ ev'.result \notin {"nothing_to_confirm", "expired"}
         /\ The(db_pending).action_type = "remove_all_custom")
        => db_rules' = <<>> /\ ev'.count = Len(db_rules)]_vars

\* C12: at most one pending confirmation is stored; a request made while one
\* is pending replaces it whole (action, target and creation time are those of
\* the newest request) and raises no error, so that a following /confirm
\* executes the newest request only.
C12_RequestReplaces ==
  [][/\ (ev'.cmd = "removecustom" /\ ev'.result \in {"pending_rule", "pending_category"}
         /\ IsSome(db_pending))
        => db_pending' = Some(Requested(db_rules, The(ev'.val), now))
     /\ (ev'.cmd = "customremoveall" /\ db_rules # <<>> /\ IsSome(db_pending))
        => /\ ev'.result # "TypeError"
           /\ db_pending' = Some([action_type |-> "remove_all_custom", category |-> None,
                                  rule_id |-> None, timestamp |-> IsoFormat(now)])
     /\ (ev'.cmd = "confirm" /\ ev'.result \notin {"nothing_to_confirm", "expired"})
        => ev'.val = PendingFromDoc(db_pending)]_vars

C14_CancelClears ==
  [][/\ (ev'.cmd = "cancel" /\ IsSome(db_pending))
        => /\ ev'.result = "cancelled"
           /\ db_pending' = None
           /\ UNCHANGED << db_rules, db_state, db_temp, auto_reply_enabled,
                           custom_rules_enabled, default_message >>
     /\ (ev.cmd = "cancel" /\ ev.result = "cancelled" /\ ev'.cmd = "confirm")
        => ev'.result = "nothing_to_confirm" /\ db_rules' = db_rules]_vars

\* C14 happens: a request was cancelled while rules were stored and an
\* override was active
C14_Witness ==
  /\ ev.cmd = "cancel"
  /\ ev.result = "cancelled"
  /\ db_pending = None
  /\ db_rules # <<>>
  /\ OverrideActive(db_temp)

\* C15: with no pending confirmation, /confirm reports "nothing to confirm"
\* and /cancel "nothing to cancel", and neither changes the rules, the flags,
\* the override or the pending slot.
C15_NothingPending ==
  [][/\ (ev'.cmd = "confirm" /\ db_pending = None)
        => ev'.result = "nothing_to_confirm" /\ Untouched /\ pc' = pc
     /\ (ev'.cmd = "cancel" /\ db_pending = None)
        => ev'.result = "nothing_to_cancel" /\ Untouched]_vars

\* C15 happens: a /confirm found nothing to confirm while rules were stored
C15_Witness ==
  /\ ev.cmd = "confirm"
  /\ ev.result = "nothing_to_confirm"
  /\ db_pending = None
  /\ db_rules # <<>>

\* C19: a resolve at or after the expiry of an active override schedules a
\* reset and takes its message from the rules (when custom_rules_enabled and a
\* rule matches) or from the default message, never from the override.
C19_ExpiredOverrideUnused ==
  (/\ ev.cmd = "start"
   /\ OverrideActive(db_temp)
   /\ IsSome(The(db_temp).temp_expiry)
   /\ now >= FromIsoFormat(The(The(db_temp).temp_expiry)))
  => /\ ev.result = "reset_scheduled"
     /\ resets > 0
     /\ ev.msg = IF custom_rules_enabled /\ Matching(db_rules, get_ist_time) # {}
                 THEN CATEGORIES[db_rules[First(Matching(db_rules, get_ist_time))].category]
                 ELSE default_message

\* C19 happens: an override is resolved at the very instant of its expiry and
\* the reply is the default message, which is not the override's
C19_Witness ==
  /\ ev.cmd = "start"
  /\ OverrideActive(db_temp)
  /\ IsSome(The(db_temp).temp_expiry)
  /\ now = FromIsoFormat(The(The(db_temp).temp_expiry))
  /\ ev.result = "reset_scheduled"
  /\ ev.msg = default_message
  /\ ev.msg # CATEGORIES[The(db_temp).temp_category]

\* the step is a handler's cooldown check of a user's message: the handler
\* leaves "await event.get_sender()" with a sender that passes the bot, owner
\* and command tests
CooldownChecked(k) ==
  /\ handlers[k].st = "get_sender"
  /\ handlers'[k] # handlers[k]
  /\ handlers[k].sender \in Users
  /\ ~handlers[k].command

\* C16: an entry written by _mark_user_replied(u) holds the time of the call
\* and changes no other user's entry; the cooldown check of u's next message
\* denies exactly when fewer than REPLY_COOLDOWN_SECONDS seconds have passed
\* since u's own entry, whatever the entries of the other users are
C16_CooldownWindow ==
  [][/\ \A k \in Slots :
          CooldownChecked(k) =>
            LET entry == recently_replied_users[handlers[k].sender]
            IN (ev'.result = "cooldown")
                 <=> (IsSome(entry) /\ now - The(entry) < REPLY_COOLDOWN_SECONDS)
     /\ ev'.cmd = "mark_user_replied" =>
          \A u \in Users :
            recently_replied_users'[u] =
              IF u = ev'.arg THEN Some(now) ELSE recently_replied_users[u]
    ]_vars

\* a user marked REPLY_COOLDOWN_SECONDS ago has just passed the cooldown
\* check (the reply is out, the new mark is not written yet) while the other
\* user's entry is inside its window
C16_Witness ==
  \E k \in Slots, u \in Users, v \in Users :
    /\ u # v
    /\ handlers[k].st = "reply"
    /\ handlers[k].sender = u
    /\ ev.cmd = "auto_reply" /\ ev.result = "replied" /\ ev.arg = u
    /\ IsSome(recently_replied_users[u])
    /\ now - The(recently_replied_users[u]) = REPLY_COOLDOWN_SECONDS
    /\ IsSome(recently_replied_users[v])
    /\ now - The(recently_replied_users[v]) < REPLY_COOLDOWN_SECONDS

\* C17: a reply sent to a user who was sent one before comes at least
\* REPLY_COOLDOWN_SECONDS seconds after the previous one, however the handlers
\* of the user's messages interleave
C17_RepliesCooldownApart ==
  [][(ev'.cmd = "auto_reply" /\ ev'.result = "replied") =>
       \A u \in Users :
         (ev'.arg = u /\ IsSome(last_sent[u])) =>
           now - The(last_sent[u]) >= REPLY_COOLDOWN_SECONDS
    ]_vars

\* C18: a reply is sent only by a handler that found auto_reply_enabled true
\* and the message private when it started, the sender neither a bot nor the
\* owner, the sender outside cooldown at its cooldown check, and the presence
\* signal it then obtained saying the owner is away
C18_ReplyConditions ==
  (ev.cmd = "auto_reply" /\ ev.result = "replied") =>
    LET seen == The(ev.val)
    IN /\ seen.enabled
       /\ seen.private
       /\ ~seen.bot
       /\ ~seen.owner
       /\ ~seen.in_cooldown
       /\ ~seen.online

\* a reply has just gone out to a user whose earlier cooldown entry has
\* elapsed, after a poll of the owner's status that the cache could not answer
C18_Witness ==
  \E u \in Users :
    /\ ev.cmd = "auto_reply" /\ ev.result = "replied" /\ ev.arg = u
    /\ IsSome(recently_replied_users[u])
    /\ now - The(recently_replied_users[u]) >= REPLY_COOLDOWN_SECONDS
    /\ last_status_check = now
    /\ ~owner_actually_online
    /\ auto_reply_enabled

\* the category the resolver looks up in the current state, if any: that of a
\* live override, else that of the first matching rule while custom rules are on
UsedCategory ==
  LET live == /\ OverrideActive(db_temp)
              /\ \/ The(db_temp).temp_expiry = None
                 \/ now < FromIsoFormat(The(The(db_temp).temp_expiry))
      hits == Matching(db_rules, now % 86400)
  IN IF live THEN Some(The(db_temp).temp_category)
     ELSE IF custom_rules_enabled /\ hits # {}
          THEN Some(db_rules[First(hits)].category)
          ELSE None

\* C20: when the category of the live override or of the matched rule is not
\* a key of CATEGORIES, the resolver ends with a ValueError and yields no
\* message; the auto-reply handler that called it sends no reply and writes
\* no cooldown entry
C20_UnknownCategoryFails ==
  [][(IsSome(UsedCategory) /\ The(UsedCategory) \notin DOMAIN CATEGORIES) =>
       /\ ev'.cmd = "start" => ev'.msg = "ValueError"
       /\ (ev'.cmd = "auto_reply" /\ ev'.result \in {"replied", "ValueError"}) =>
            /\ ev'.result = "ValueError"
            /\ ev'.msg = ""
            /\ last_sent' = last_sent
            /\ recently_replied_users' = recently_replied_users
            /\ \A k \in Slots : handlers'[k].st = "reply" => handlers[k].st = "reply"
    ]_vars

\* a handler that was to reply has just resolved the message while custom
\* rules are on and the matching rule carries a category outside the table
C20_Witness ==
  /\ ev.cmd = "auto_reply" /\ ev.result = "ValueError"
  /\ ~OverrideActive(db_temp)
  /\ custom_rules_enabled
  /\ IsSome(UsedCategory)
  /\ The(UsedCategory) \notin DOMAIN CATEGORIES
  /\ last_sent[ev.arg] = None

\* C21: whoever invokes the matcher, the resolver or the /status handler, does
\* so only while custom_rules_enabled is true and no unexpired override is
\* active
C21_MatcherGuarded ==
  (ev.cmd = "status" /\ (The(ev.val).resolver \/ The(ev.val).status)) =>
    /\ custom_rules_enabled
    /\ ~(/\ OverrideActive(db_temp)
         /\ \/ The(db_temp).temp_expiry = None
            \/ now < FromIsoFormat(The(The(db_temp).temp_expiry)))

\* the resolver's own call of the matcher obeys both conditions
ResolverMatcherGuarded ==
  (ev.cmd = "status" /\ The(ev.val).resolver) =>
    /\ custom_rules_enabled
    /\ ~(/\ OverrideActive(db_temp)
         /\ \/ The(db_temp).temp_expiry = None
            \/ now < FromIsoFormat(The(The(db_temp).temp_expiry)))

\* the text "start-end" has two clock times, hours 0..23 and minutes 0..59
WellFormedRange(range) ==
  \A i \in 1..2 : range[i][1] \in 0..23 /\ range[i][2] \in 0..59

\* the identifier names a stored rule (by its 8-character id) or the category
\* of one
Names(docs, identifier) ==
  \E i \in 1..Len(docs) :
    \/ identifier.len8 /\ docs[i].rule_id = identifier.id
    \/ docs[i].category = identifier.name

\* C22: a command with a wrong number of arguments, an unknown category, a
\* malformed time range, or an identifier that names no stored rule or
\* category leaves rules, flags, default message, temp state and pending
\* confirmation as they were
C22_RejectedUnchanged ==
  [][/\ ev'.result = "usage" => Untouched
     /\ (/\ ev'.cmd = "custom"
         /\ ev'.result # "usage"
         /\ \/ The(ev'.val).category \notin DOMAIN CATEGORIES
            \/ ~WellFormedRange(The(ev'.val).range)) => Untouched
     /\ (/\ ev'.cmd = "customedit"
         /\ ev'.result # "usage"
         /\ \/ \A i \in 1..Len(db_rules) : db_rules[i].rule_id # The(ev'.val).rule_id
            \/ ~WellFormedRange(The(ev'.val).range)) => Untouched
     /\ (/\ ev'.cmd = "removecustom"
         /\ ev'.result # "usage"
         /\ ~Names(db_rules, The(ev'.val))) => Untouched
     /\ (/\ ev'.cmd = "temp"
         /\ ev'.result # "usage"
         /\ ev'.arg \notin DOMAIN CATEGORIES) => Untouched
    ]_vars

\* an unknown category has just been refused while a rule is stored, temp
\* mode is active and a confirmation is pending
C22_Witness ==
  /\ ev.cmd = "custom"
  /\ ev.result = "invalid_category"
  /\ db_rules # <<>>
  /\ OverrideActive(db_temp)
  /\ IsSome(db_pending)

\* C23: a /temp that reports the activation has saved the stored rules, also
\* when the read of the rules failed: a failed read is reported as a failure
\* and never leaves an empty snapshot for a later reset to restore
C23_StoreFailureSurfaced ==
  [][(ev'.cmd = "temp" /\ ev'.result = "activated") =>
       /\ OverrideActive(db_temp')
       /\ Len(The(db_temp').saved_rules) = Len(db_rules)
    ]_vars

\* C24: /tempreset, and the reset task, run while the stored temp mode is
\* absent or inactive change neither rules, flags, default message, temp
\* state nor pending confirmation, and /tempreset replies that temp mode is
\* not active
C24_ResetWithoutOverride ==
  [][(ev'.cmd \in {"tempreset", "lazy_reset"} /\ ~OverrideActive(db_temp)) =>
       /\ Untouched
       /\ ev'.cmd = "tempreset" => ev'.result = "not_active"
       /\ ev'.cmd = "lazy_reset" => ev'.result = "noop"
    ]_vars

\* /tempreset has just found a stored temp state that is not active, with
\* rules stored and custom rules on
C24_Witness ==
  /\ ev.cmd = "tempreset"
  /\ ev.result = "not_active"
  /\ IsSome(db_temp)
  /\ db_rules # <<>>
  /\ custom_rules_enabled

\* the reset task scheduled by the resolver has run after a /tempreset had
\* already ended the override
LazyResetFoundNothing == ev.cmd = "lazy_reset" /\ ev.result = "noop" /\ db_temp = None

\* C25: a call of the resolver made while no expired override is stored
\* leaves rules, flags, default message, temp state and pending confirmation
\* as they were and schedules no reset
C25_ResolveChangesNothing ==
  [][(/\ ev'.cmd = "start"
      /\ ~(/\ OverrideActive(db_temp)
           /\ The(db_temp).temp_expiry # None
           /\ now >= FromIsoFormat(The(The(db_temp).temp_expiry)))) =>
       /\ Untouched
       /\ resets' = resets
    ]_vars

\* the resolver has just answered from an override whose expiry lies ahead,
\* with rules stored and custom rules on
C25_Witness ==
  /\ ev.cmd = "start"
  /\ ev.result = "read"
  /\ OverrideActive(db_temp)
  /\ The(db_temp).temp_expiry # None
  /\ now < FromIsoFormat(The(The(db_temp).temp_expiry))
  /\ db_rules # <<>>
  /\ custom_rules_enabled
  /\ resets = 0

\* the tracked entries of a cache, and those older than the cooldown window
\* at time t
Tracked(users) == {u \in DOMAIN users : IsSome(users[u])}
Stale(users, t) == {u \in Tracked(users) : t - The(users[u]) > REPLY_COOLDOWN_SECONDS}

\* C26: _mark_user_replied(u) records the current time for u; when more than
\* CLEANUP_THRESHOLD users are then tracked, every entry older than the
\* cooldown window is removed and every entry inside it is kept as it was;
\* otherwise no entry is removed; so the cache never holds more than
\* CLEANUP_THRESHOLD entries older than the window after the call
C26_MarkEvicts ==
  [][ev'.cmd = "mark_user_replied" =>
       LET u == The(ev'.val)
           marked == [recently_replied_users EXCEPT ![u] = Some(now)]
           after == recently_replied_users'
       IN /\ after[u] = Some(now)
          /\ Cardinality(Tracked(marked)) > CLEANUP_THRESHOLD =>
               /\ Stale(after, now) = {}
               /\ \A v \in Tracked(marked) :
                    now - The(marked[v]) < REPLY_COOLDOWN_SECONDS => after[v] = marked[v]
          /\ Cardinality(Tracked(marked)) <= CLEANUP_THRESHOLD => after = marked
          /\ Tracked(after) \subseteq Tracked(marked)
          /\ Cardinality(Stale(after, now)) <= CLEANUP_THRESHOLD
    ]_vars

\* a mark has just brought the cache above the threshold: the old entries are
\* gone and the entries inside the window are still there
C26_Witness ==
  /\ ev.cmd = "mark_user_replied"
  /\ ev.count = CLEANUP_THRESHOLD + 1
  /\ Cardinality(Tracked(recently_replied_users)) < ev.count
  /\ Cardinality(Tracked(recently_replied_users)) > 1
  /\ Stale(recently_replied_users, now) = {}

\* the count the ledger holds for the user and the date, 0 when it has no entry
LedgerCount(stats, user_id, date) ==
  IF \E d \in stats : d.user_id = user_id /\ d.date = date
  THEN (CHOOSE d \in stats : d.user_id = user_id /\ d.date = date).count
  ELSE 0

\* the handler found the message passing every reply check
PassedAllChecks(e) ==
  /\ e.cmd = "auto_reply"
  /\ IsSome(e.val)
  /\ The(e.val).enabled /\ The(e.val).private
  /\ ~The(e.val).bot /\ ~The(e.val).owner /\ ~The(e.val).command
  /\ ~The(e.val).in_cooldown /\ ~The(e.val).online

\* C27: a message that passes every reply check raises the ledger count of
\* its sender and the current date by exactly 1, from 0 when there was no
\* entry, and changes no other entry; every other step leaves the ledger as
\* it was, so no count decreases and no entry disappears
C27_LedgerIncrements ==
  [][IF PassedAllChecks(ev')
     THEN /\ \A d \in message_count' :
               d.count = LedgerCount(message_count, d.user_id, d.date)
                         + (IF d.user_id = ev'.arg /\ d.date = now \div 86400 THEN 1 ELSE 0)
          /\ LedgerCount(message_count', ev'.arg, now \div 86400)
               = LedgerCount(message_count, ev'.arg, now \div 86400) + 1
          /\ Cardinality({d \in message_count' : d.user_id = ev'.arg}) = 1
          /\ \A d \in message_count : \E e \in message_count' :
               e.user_id = d.user_id /\ e.date = d.date
     ELSE message_count' = message_count
    ]_vars

\* a second message of a user has just been counted while another user has an
\* entry too
C27_Witness ==
  \E u \in Users, v \in Users :
    /\ u # v
    /\ PassedAllChecks(ev)
    /\ ev.arg = u
    /\ LedgerCount(message_count, u, now \div 86400) = 2
    /\ LedgerCount(message_count, v, now \div 86400) = 1

\* C28: /custom with a category of the table and a well-formed time range
\* replies that the rule was added and stores exactly one more rule, with the
\* given category and times and an id no stored rule has; the rules stored
\* before stay as they were, whatever their windows, the flag and the temp
\* state are
C28_AddAlwaysSucceeds ==
  [][(/\ ev'.cmd = "custom"
      /\ ev'.result # "usage"
      /\ The(ev'.val).category \in DOMAIN CATEGORIES
      /\ WellFormedRange(The(ev'.val).range)) =>
       /\ ev'.result = "added"
       /\ Len(db_rules') = Len(db_rules) + 1
       /\ \A i \in 1..Len(db_rules) : db_rules'[i] = db_rules[i]
       /\ LET new == db_rules'[Len(db_rules')]
          IN /\ new.category = The(ev'.val).category
             /\ new.start_time = The(ev'.val).range[1]
             /\ new.end_time = The(ev'.val).range[2]
             /\ \A i \in 1..Len(db_rules) : db_rules[i].rule_id # new.rule_id
    ]_vars

\* a rule has just been added that repeats the category and the window of a
\* stored rule, while temp mode is active
C28_Witness ==
  /\ ev.cmd = "custom"
  /\ ev.result = "added"
  /\ Len(db_rules) = 2
  /\ db_rules[1].category = db_rules[2].category
  /\ db_rules[1].start_time = db_rules[2].start_time
  /\ db_rules[1].end_time = db_rules[2].end_time
  /\ db_rules[1].rule_id # db_rules[2].rule_id
  /\ OverrideActive(db_temp)

\* the observations of handlers the owner's commands in Saved Messages run
OwnerCommands ==
  {"start", "status", "on", "off", "set", "custom", "customedit", "removecustom",
   "customremoveall", "customon", "customoff", "temp", "tempreset", "confirm", "cancel"}

\* the observations of the handlers of other messages: a '/' message the
\* command handler turns away, and the steps of the auto-reply handler
OtherMessages == {"command", "auto_reply", "should_reply", "mark_user_replied"}

\* a '/' message from another sender or in another chat changes nothing and
\* gets no automatic reply
SlashMessagesInert ==
  /\ ev'.cmd = "command" => Untouched /\ last_sent' = last_sent
  /\ \A k \in Slots :
       (handlers[k].st # "idle" /\ handlers[k].command /\ handlers'[k] # handlers[k]) =>
         /\ Untouched
         /\ last_sent' = last_sent
         /\ handlers'[k].st = "idle"

OverrideStored == IsSome(db_temp) /\ The(db_temp).temp_active

\* C30: when the process stops inside activation and is started again, the
\* store never holds an active override together with custom_rules_enabled
\* true, and the restarted process does not run with that flag on under an
\* active override
C30_ActivationAtomic ==
  /\ ev.cmd = "stopped" => ~(OverrideStored /\ db_state.custom_rules_enabled)
  /\ ev.cmd = "restart" =>
       ~(OverrideStored /\ (db_state.custom_rules_enabled \/ custom_rules_enabled))

\* the commands themselves, run to their end, keep the flag off, in the
\* store and in memory, while an override is stored
FlagOffUnderOverride ==
  OverrideStored => ~db_state.custom_rules_enabled /\ ~custom_rules_enabled

\* C31: a confirm clears only the pending confirmation it executed: a request
\* stored while a confirm is suspended between its action and its clear is
\* still pending, unchanged, when that confirm completes
C31_ClearsOnlyExecuted ==
  [][(/\ ev.cmd = "removecustom"
      /\ ev.result \in {"pending_rule", "pending_category"}
      /\ \E k \in Slots : pc[k] = "confirm_reply"
      /\ ev'.cmd = "confirm_clear")
     => db_pending' = db_pending /\ IsSome(db_pending')]_vars

\* an active override whose expiry has passed is stored
ExpiredOverride ==
  /\ OverrideActive(db_temp)
  /\ The(db_temp).temp_expiry # None
  /\ now >= FromIsoFormat(The(The(db_temp).temp_expiry))

\* every reset task the resolver created runs
ScheduledResetRuns == (resets > 0) ~> (resets = 0)

ResetRestoresOnce ==
  [][ev'.cmd = "lazy_reset" =>
       /\ ExpiredOverride =>
            /\ db_temp' = None
            /\ db_rules' = The(db_temp).saved_rules
            /\ custom_rules_enabled' = The(db_temp).saved_custom_enabled
            /\ db_state'.custom_rules_enabled = The(db_temp).saved_custom_enabled
       /\ ~OverrideActive(db_temp) => Untouched /\ ev'.result = "noop"
    ]_vars

\* a second reset task has run after the first had restored a saved rule
SecondResetNoOp ==
  /\ ev.cmd = "lazy_reset"
  /\ ev.result = "noop"
  /\ db_temp = None
  /\ \E i \in 1..Len(db_rules) : db_rules[i].category = "work"

\* the first instant of the wall-clock minute a time of day lies in
MinuteOf(t) == t - (t % 60)

\* C33: the rule get_active_rule returns at an instant is the one it returns
\* at the first instant of the same wall-clock minute: a rule matches at every
\* second of its end minute, and a rule with start = end throughout that minute
C33_MinuteResolution ==
  ev.cmd = "get_active_rule" => ev.val = ActiveRule(db_rules, MinuteOf(get_ist_time))

\* C34: while an override is active, custom_rules_enabled is false in memory
\* and in the store, whatever commands ran; a /customon sent meanwhile is
\* rejected and has changed nothing
C34_OverrideKeepsCustomOff ==
  OverrideStored =>
    /\ ~custom_rules_enabled
    /\ ~db_state.custom_rules_enabled
    /\ ev.cmd = "customon" => ev.result = "blocked_temp_active"

\* /customon has just been rejected under an override that was activated
\* while custom rules were on, with auto-reply on
C34_Witness ==
  /\ ev.cmd = "customon"
  /\ ev.result = "blocked_temp_active"
  /\ OverrideStored
  /\ The(db_temp).saved_custom_enabled
  /\ auto_reply_enabled

\* C35: the stored pending confirmation changes only in a /removecustom that
\* stores a request, in a /confirm (when it finds the request expired, and
\* when it clears it after its reply) and in a /cancel; every other step
\* leaves it as it was
C35_PendingFrame ==
  [][db_pending' # db_pending =>
       \/ ev'.cmd = "removecustom" /\ ev'.result \in {"pending_rule", "pending_category"}
       \/ ev'.cmd = "customremoveall"
       \/ ev'.cmd = "confirm" /\ ev'.result = "expired"
       \/ ev'.cmd = "confirm_clear"
       \/ ev'.cmd = "cancel" /\ ev'.result = "cancelled"
    ]_vars

\* a /confirm has just removed a rule that is in the snapshot of the active
\* override: the request outlived the activation
C35_Witness ==
  /\ ev.cmd = "confirm"
  /\ ev.result \in {"rule_removed", "removed_count"}
  /\ OverrideStored
  /\ IsSome(db_pending)
  /\ \E i \in 1..Len(The(db_temp).saved_rules) :
       \A j \in 1..Len(db_rules) :
         db_rules[j].rule_id # The(db_temp).saved_rules[i].rule_id

\* C36: a reset leaves the rule collection exactly as it was when the
\* override was activated, same documents with the same rule ids in the same
\* order: get_active_rule returns the same rule at every time of day as then,
\* and a delete-rule confirmation still finds the rule it named
C36_ResetKeepsIdsAndOrder ==
  [][(ev'.cmd \in {"tempreset", "lazy_reset"} /\ ev'.result = "reset" /\ IsSome(activation))
     => /\ db_rules' = The(activation).docs
        /\ \A t \in ProbeTimes :
             ActiveRule(db_rules', t) = ActiveRule(The(activation).docs, t)
        /\ (IsSome(db_pending') /\ IsSome(The(db_pending').rule_id)) =>
             \A d \in {The(activation).docs[i] : i \in 1..Len(The(activation).docs)} :
               Some(d.rule_id) = The(db_pending').rule_id =>
                 \E j \in 1..Len(db_rules') : db_rules'[j] = d
    ]_vars

\* a /tempreset has just restored two overlapping rules that had been changed
\* under the override, while a delete-rule confirmation names the first
C36_Witness ==
  /\ ev.cmd = "tempreset"
  /\ ev.result = "reset"
  /\ ev.changed
  /\ Len(db_rules) = 2
  /\ \A i \in 1..2 : is_time_in_range(0, The(parse_time(db_rules[i].start_time)),
                                       The(parse_time(db_rules[i].end_time)))
  /\ IsSome(db_pending)
  /\ The(db_pending).rule_id = Some(db_rules[1].rule_id)

\* what the claim says of /on, of /off when auto-reply is off, of /set and of
\* the frame of the three
OnOffSetEffects ==
  /\ (ev'.cmd = "on" /\ ~auto_reply_enabled) =>
       /\ auto_reply_enabled' /\ ~custom_rules_enabled'
       /\ db_state' = BotStateDoc(TRUE, default_message, FALSE)
       /\ default_message' = default_message
  /\ (ev'.cmd = "on" /\ auto_reply_enabled) => Untouched
  /\ (ev'.cmd = "off" /\ ~auto_reply_enabled) => Untouched
  /\ (ev'.cmd = "set" /\ ev'.arg # "") =>
       /\ default_message' = ev'.arg
       /\ auto_reply_enabled'
       /\ custom_rules_enabled' = custom_rules_enabled
       /\ db_state' = BotStateDoc(TRUE, ev'.arg, custom_rules_enabled)
  /\ ev'.cmd \in {"on", "off", "set"} => UNCHANGED << db_rules, db_temp, db_pending >>

\* C37: /off always ends with auto_reply_enabled and custom_rules_enabled
\* false; /on from the disabled state ends with auto-reply on and custom
\* rules off; /on when enabled and /off when disabled change nothing; /set
\* with a message sets it and turns auto-reply on, custom_rules_enabled as it
\* was; none of the three changes rules, temp state or pending confirmation
C37_OnOffSet ==
  [][/\ ev'.cmd = "off" => ~auto_reply_enabled' /\ ~custom_rules_enabled'
     /\ OnOffSetEffects
    ]_vars

\* C37 as amended: the same, with /off ending with both flags false when it
\* is sent while auto-reply is on
C37_OnOffSetFromEnabled ==
  [][/\ (ev'.cmd = "off" /\ auto_reply_enabled) =>
          /\ ~auto_reply_enabled' /\ ~custom_rules_enabled'
          /\ db_state' = BotStateDoc(FALSE, default_message, FALSE)
          /\ default_message' = default_message
     /\ OnOffSetEffects
    ]_vars

\* /off has just turned auto-reply off while rules and a pending
\* confirmation are stored
C37_Witness ==
  /\ ev.cmd = "off"
  /\ ev.result = "disabled"
  /\ db_rules # <<>>
  /\ IsSome(db_pending)
  /\ ~auto_reply_enabled
  /\ ~custom_rules_enabled

\* C38: the cooldown cache changes only when a handler whose reply was sent
\* resumes and marks its recipient; a handler whose resolver raised or whose
\* send failed leaves the cache as it was, so a recipient who was outside
\* cooldown still is
C38_MarkOnlyAfterSend ==
  [][/\ recently_replied_users' # recently_replied_users =>
          /\ ev'.cmd = "mark_user_replied"
          /\ \E k \in Slots : /\ handlers[k].st = "reply"
                               /\ handlers[k].sender = ev'.arg
                               /\ handlers'[k].st = "idle"
          /\ \A u \in Users \ {ev'.arg} :
               recently_replied_users'[u] = recently_replied_users[u]
     /\ (ev'.cmd = "auto_reply" /\ ev'.result \in {"ValueError", "send_failed"}) =>
          /\ recently_replied_users' = recently_replied_users
          /\ ~InCooldown(recently_replied_users, ev'.arg, now) =>
               ~InCooldown(recently_replied_users', ev'.arg, now')
    ]_vars

\* the send of the reply to a second message of a user has just failed, as
\* the first one had: both passed the checks and the user is still untracked
C38_Witness ==
  /\ ev.cmd = "auto_reply"
  /\ ev.result = "send_failed"
  /\ recently_replied_users[ev.arg] = None
  /\ \A k \in Slots : handlers[k].st = "idle"
  /\ \E d \in message_count : d.user_id = ev.arg /\ d.count = 2

============================================================================
